---- MODULE Spec2Model ----
(***************************************************************************)
(* The sound engine of src/sound/s_sound.cpp: the channel pool (two        *)
(* intrusive lists), StartSound's decision pipeline, the evict / restart   *)
(* protocol and the backend callbacks.                                     *)
(*                                                                         *)
(* Pointers are integers: a channel is an id in 1..N, NULL is 0.  A        *)
(* FSoundChan** (PrevChan) is HEAD_CHANNELS (&Channels), HEAD_FREE         *)
(* (&FreeChannels) or the id c of a channel, meaning &c->NextChan.         *)
(* ChanFlags is the set of the bits that are set in the integer.           *)
(* Positions are integer triples; a float volume v is the integer 100*v.   *)
(***************************************************************************)
EXTENDS Integers, Sequences, FiniteSets, TLC

VARIABLES
    chan,               \* id -> FSoundChan: the channel objects allocated so far
    Channels,           \* SoundEngine::Channels (head of the active list)
    FreeChannels,       \* SoundEngine::FreeChannels (head of the free list)
    S_sfx,              \* SoundEngine::S_sfx (the sfxinfo table)
    S_rnd,              \* SoundEngine::S_rnd (the random sound lists)
    RestartEvictionsAt, \* SoundEngine::RestartEvictionsAt
    SoundPaused,        \* SoundEngine::SoundPaused
    last,               \* the last engine call: its name, result, backend answers
    res,                \* StartSound's link loop, run one iteration at a time
    arc,                \* the FSerializer of src/serializer.cpp
    app                 \* the serializer's caller: its fields and what it saw

vars == <<chan, Channels, FreeChannels, S_sfx, S_rnd, RestartEvictionsAt,
          SoundPaused, last, res, arc, app>>

-----------------------------------------------------------------------------
(* Bounds of the model *)

MaxChans == 2       \* FSoundChan objects the heap can hold
MaxAutoChans == 8   \* the same, where slot selection is explored
MaxLimitChans == 3  \* the same, where the near limit is explored
MaxTime == 2        \* largest tick passed to UpdateSounds / SetRestartTime
MaxPos == 0         \* largest playback position read when a channel is evicted
MaxRand == 1        \* largest value rand() returns
MaxSounds == 3      \* sounds of a registry whose links are drawn freely
EndPos == 3         \* largest playback position read when a voice ends

-----------------------------------------------------------------------------
(* Program constants *)

NULLP == 0
HEAD_CHANNELS == -1
HEAD_FREE == -2

DEFAULT_PITCH == 128

CHAN_AUTO == 0
CHAN_LISTENERZ == 8
CHAN_MAYBE_LOCAL == 16
CHAN_UI == 32
CHAN_NOPAUSE == 64
CHAN_AREA == 128
CHAN_LOOP == 256
CHAN_IS3D == 1
CHAN_EVICTED == 2
CHAN_FORGETTABLE == 4
CHAN_JUSTSTARTED == 512
CHAN_ABSTIME == 1024
CHAN_VIRTUAL == 2048
CHAN_NOSTOP == 4096

SOURCE_None == 0
SOURCE_Actor == 1
SOURCE_Sector == 2
SOURCE_Polyobj == 3
SOURCE_Unattached == 4

NO_LINK == -1        \* sfxinfo_t::NO_LINK (0xffffffff)
NO_LUMP == -1        \* lumpnum of a sound without a lump
sfx_empty == -1      \* lump of the empty sound

AllBits == {1, 2, 4, 8, 16, 32, 64, 128, 256, 512, 1024, 2048, 4096}

\* The bits set in n.
BitsOf(n) == {b \in AllBits : (n \div b) % 2 = 1}

Min(a, b) == IF a <= b THEN a ELSE b

-----------------------------------------------------------------------------
(* FSoundChan and the intrusive lists *)

\* memset(chan, 0, sizeof(*chan))
ZeroChan ==
    [NextChan |-> NULLP, PrevChan |-> NULLP, SysChannel |-> NULLP,
     SoundID |-> 0, OrgID |-> 0, Volume |-> 0, Pitch |-> 0, EntChannel |-> 0,
     Priority |-> 0, NearLimit |-> 0, LimitRange |-> 0, SourceType |-> 0,
     Source |-> NULLP, Point |-> <<0, 0, 0>>, ChanFlags |-> {},
     StartTime |-> 0, DistanceScale |-> 0]

\* *p = v  for a FSoundChan** p
StorePtr(e, p, v) ==
    IF p = HEAD_CHANNELS THEN [e EXCEPT !.Channels = v]
    ELSE IF p = HEAD_FREE THEN [e EXCEPT !.FreeChannels = v]
    ELSE [e EXCEPT !.chan[p].NextChan = v]

\* *p  for a FSoundChan** p
LoadPtr(e, p) ==
    IF p = HEAD_CHANNELS THEN e.Channels
    ELSE IF p = HEAD_FREE THEN e.FreeChannels
    ELSE e.chan[p].NextChan

UnlinkChannel(e, c) ==
    LET e1 == StorePtr(e, e.chan[c].PrevChan, e.chan[c].NextChan)
        n == e.chan[c].NextChan
    IN  IF n # NULLP THEN [e1 EXCEPT !.chan[n].PrevChan = e.chan[c].PrevChan]
        ELSE e1

LinkChannel(e, c, head) ==
    LET h == LoadPtr(e, head)
        e1 == [e EXCEPT !.chan[c].NextChan = h]
        e2 == IF h # NULLP THEN [e1 EXCEPT !.chan[h].PrevChan = c] ELSE e1
        e3 == StorePtr(e2, head, c)
    IN  [e3 EXCEPT !.chan[c].PrevChan = head]

\* new FSoundChan; memset(chan, 0, sizeof(*chan)): the next id, zeroed
NewChan(e) == Cardinality(DOMAIN e.chan) + 1

Allocate(e, c) ==
    [e EXCEPT !.chan = [x \in DOMAIN @ \cup {c} |-> IF x = c THEN ZeroChan ELSE @[x]]]

\* GetChannel returns the channel; here: the engine with e.ret set to it.
GetChannel(e, syschan) ==
    LET c == IF e.FreeChannels # NULLP THEN e.FreeChannels ELSE NewChan(e)
        e1 == IF e.FreeChannels # NULLP THEN UnlinkChannel(e, c)
              ELSE Allocate(e, c)
        e2 == LinkChannel(e1, c, HEAD_CHANNELS)
    IN  [e2 EXCEPT !.chan[c].SysChannel = syschan, !.ret = c]

\* ReturnChannel without its LinkChannel: the channel is unlinked and dropped.
ReturnChannel_Drops(e, c) == UnlinkChannel(e, c)

\* ReturnChannel without its memset: the channel goes to the free list as
\* it is.
ReturnChannel_Keeps(e, c) == LinkChannel(UnlinkChannel(e, c), c, HEAD_FREE)

ReturnChannel(e, c) ==
    LET e1 == UnlinkChannel(e, c)
        e2 == [e1 EXCEPT !.chan[c] = ZeroChan]
    IN  LinkChannel(e2, c, HEAD_FREE)

\* The channels reached from c through NextChan, c first; at most n of them.
RECURSIVE Walk(_, _, _)
Walk(ch, c, n) ==
    IF c = NULLP \/ n = 0 THEN <<>>
    ELSE <<c>> \o Walk(ch, ch[c].NextChan, n - 1)

\* The active list and the free list as sequences, head first.
ActiveOf(e) == Walk(e.chan, e.Channels, Cardinality(DOMAIN e.chan) + 1)
FreeOf(e) == Walk(e.chan, e.FreeChannels, Cardinality(DOMAIN e.chan) + 1)

Range(s) == {s[i] : i \in 1..Len(s)}

-----------------------------------------------------------------------------
(* The engine as one value: the operators below take it and return it, as   *)
(* the C++ methods take and change *this.  ret is the value the call        *)
(* returns, accepted the channels the backend gave a voice during the call, *)
(* asked the reuse_chan arguments of the backend's StartSound, in order,    *)
(* tried the lumps LoadSound read.                                          *)

Engine ==
    [chan |-> chan, Channels |-> Channels,
     FreeChannels |-> FreeChannels, S_sfx |-> S_sfx, S_rnd |-> S_rnd,
     RestartEvictionsAt |-> RestartEvictionsAt, SoundPaused |-> SoundPaused,
     ret |-> NULLP, accepted |-> {}, asked |-> <<>>,
     tried |-> <<>>]

\* No link loop is running.
NoLoop == [pc |-> "none"]

\* FSerializer after construction: w and r are null (a pointer to a writer or
\* a reader is the sequence of at most one FWriter or FReader).
NoArc == [w |-> <<>>, r |-> <<>>, mErrors |-> 0]

\* No caller of the serializer.
NoApp == [pc |-> "none"]

\* The calls the history tells apart; every other call is logged as "other".
Logged == {"StartSound", "EvictAllChannels", "RestoreEvictedChannels",
           "UpdateSounds", "Reset", "RestartChannel", "LoadSound",
           "HashSounds", "FindSound"}

\* The call named op took the engine to e and returned ret.
Becomes(op, e, ret) ==
    /\ chan' = e.chan
    /\ Channels' = e.Channels
    /\ FreeChannels' = e.FreeChannels
    /\ S_sfx' = e.S_sfx
    /\ S_rnd' = e.S_rnd
    /\ RestartEvictionsAt' = e.RestartEvictionsAt
    /\ SoundPaused' = e.SoundPaused
    /\ last' = [op |-> IF op \in Logged THEN op ELSE "other", ret |-> ret,
                accepted |-> e.accepted]
    /\ UNCHANGED <<res, arc, app>>

-----------------------------------------------------------------------------
(* The client: positions.  Actors stand still; the listener is actor 1.     *)

ListenerObject == 1
Actors == {1, 2}

ActorPos(a) == IF a = 1 THEN <<0, 0, 0>> ELSE <<4, 0, 0>>

\* SoundEngine::CalcPosVel (pure virtual, the client's): the position only.
CalcPosVel(type, source, pt) ==
    IF type = SOURCE_Unattached THEN pt
    ELSE IF type = SOURCE_None \/ source = NULLP THEN ActorPos(ListenerObject)
    ELSE ActorPos(source)

CalcPosVelChan(c) == CalcPosVel(c.SourceType, c.Source, c.Point)

\* The default ValidatePosVel lets everything pass.
ValidatePosVel(type, source, pos) == TRUE

LengthSquared(a, b) ==
    (a[1] - b[1]) * (a[1] - b[1]) + (a[2] - b[2]) * (a[2] - b[2])
        + (a[3] - b[3]) * (a[3] - b[3])

-----------------------------------------------------------------------------
(* Scans of the active list *)

CheckSingular(e, sound_id) ==
    \E c \in Range(ActiveOf(e)) : e.chan[c].OrgID = sound_id

\* The loop of CheckSoundLimit over the channels in l, with count so far.
\* S_sfx is an array: &S_sfx[chan->SoundID] == sfx compares the indices.
RECURSIVE LimitScan(_, _, _, _, _, _, _, _, _)
LimitScan(e, l, count, sfx, pos, near_limit, limit_range, sourcetype, actor_channel) ==
    IF l = <<>> \/ count >= near_limit THEN count >= near_limit
    ELSE LET c == e.chan[Head(l)]
             actor == actor_channel[1]
             channel == actor_channel[2]
         IN  IF CHAN_EVICTED \notin c.ChanFlags /\ c.SoundID = sfx
             THEN IF actor # NULLP /\ c.EntChannel = channel
                     /\ c.SourceType = sourcetype /\ c.Source = actor
                  THEN FALSE
                  ELSE LimitScan(e, Tail(l),
                           IF LengthSquared(CalcPosVelChan(c), pos) <= limit_range
                           THEN count + 1 ELSE count,
                           sfx, pos, near_limit, limit_range, sourcetype,
                           actor_channel)
             ELSE LimitScan(e, Tail(l), count, sfx, pos, near_limit, limit_range,
                            sourcetype, actor_channel)

\* CheckSoundLimit that finds no copy nearby.
CheckSoundLimit_Never(e, sfx, pos, near_limit, limit_range, sourcetype, actor, channel) ==
    FALSE

CheckSoundLimit(e, sfx, pos, near_limit, limit_range, sourcetype, actor, channel) ==
    LimitScan(e, ActiveOf(e), 0, sfx, pos, near_limit, limit_range, sourcetype,
              <<actor, channel>>)

\* IsChannelUsed: <<used, seen>>, seen being the set of the slots whose bit is set.
RECURSIVE UsedScan(_, _, _, _, _, _)
UsedScan(e, l, sourcetype, actor, channel, seen) ==
    IF l = <<>> THEN <<FALSE, seen>>
    ELSE LET c == e.chan[Head(l)]
         IN  IF c.SourceType = sourcetype /\ c.Source = actor
             THEN IF c.EntChannel = channel
                  THEN <<TRUE, seen \cup {c.EntChannel}>>
                  ELSE UsedScan(e, Tail(l), sourcetype, actor, channel,
                                seen \cup {c.EntChannel})
             ELSE UsedScan(e, Tail(l), sourcetype, actor, channel, seen)

\* IsChannelUsed that finds every slot unused.
IsChannelUsed_Never(e, sourcetype, actor, channel, seen) == <<FALSE, seen>>

IsChannelUsed(e, sourcetype, actor, channel, seen) ==
    IF channel \in seen THEN <<TRUE, seen>>
    ELSE UsedScan(e, ActiveOf(e), sourcetype, actor, channel, seen)

-----------------------------------------------------------------------------
(* Ending and stopping a channel *)

\* GSnd->GetSampleLength: every sound is this long.
SampleLength == 2

\* ChannelEnded without "schan->SysChannel = NULL" for the channel it parks.
ChannelEnded_KeepsVoice(e, c, pos, len) ==
    IF c = NULLP THEN e
    ELSE IF CHAN_FORGETTABLE \in e.chan[c].ChanFlags THEN ReturnChannel(e, c)
    ELSE [e EXCEPT !.chan[c].ChanFlags = @ \cup {CHAN_EVICTED}]

\* ChannelEnded that never asks the backend for the position.
ChannelEnded_NoPosition(e, c, pos, len) ==
    IF c = NULLP THEN e
    ELSE IF CHAN_FORGETTABLE \in e.chan[c].ChanFlags
            \/ e.chan[c].ChanFlags \cap {CHAN_LOOP, CHAN_EVICTED} = {}
    THEN ReturnChannel(e, c)
    ELSE [e EXCEPT !.chan[c].ChanFlags = @ \cup {CHAN_EVICTED},
                   !.chan[c].SysChannel = NULLP]

\* ChannelEnded: pos and len are what the backend reports for the channel.
ChannelEnded(e, c, pos, len) ==
    IF c = NULLP THEN e
    ELSE LET f == e.chan[c].ChanFlags
             evicted ==
                 IF CHAN_FORGETTABLE \in f THEN FALSE
                 ELSE IF f \cap {CHAN_LOOP, CHAN_EVICTED} # {} THEN TRUE
                 ELSE IF pos = 0 THEN CHAN_JUSTSTARTED \in f
                 ELSE pos < len
         IN  IF ~evicted THEN ReturnChannel(e, c)
             ELSE [e EXCEPT !.chan[c].ChanFlags = @ \cup {CHAN_EVICTED},
                            !.chan[c].SysChannel = NULLP]

\* The backend's StopChannel: it releases the voice and reports the end of the
\* channel to the engine before it returns.
GSnd_StopChannel(e, c, pos) ==
    IF c = NULLP \/ e.chan[c].SysChannel = NULLP THEN e
    ELSE ChannelEnded(e, c, pos, SampleLength)

StopChannel(e, c, pos) ==
    IF c = NULLP THEN e
    ELSE IF e.chan[c].SysChannel # NULLP
    THEN LET e1 == IF CHAN_EVICTED \notin e.chan[c].ChanFlags
                   THEN [e EXCEPT
                           !.chan[c].ChanFlags = @ \cup {CHAN_FORGETTABLE},
                           !.chan[c].Source =
                               IF e.chan[c].SourceType = SOURCE_Actor
                               THEN NULLP ELSE @]
                   ELSE e
         IN  GSnd_StopChannel(e1, c, pos)
    ELSE ReturnChannel(e, c)


-----------------------------------------------------------------------------
(* sfxinfo_t and the loader.  A SoundHandle is an integer, 0 when invalid:  *)
(* entry i decodes to handle 2i+1, its separate 3D version to handle 2i+2.  *)

NoHandle == 0
Handle2D(i) == 2 * i + 1
Handle3D(i) == 2 * i + 2

\* The global default rolloff, S_Rolloff.
S_Rolloff == [RolloffType |-> 0, MinDistance |-> 200, MaxDistance |-> 1200]
NoRolloff == [RolloffType |-> 0, MinDistance |-> 0, MaxDistance |-> 0]

\* The entry AddSoundLump appends.
NewSfx(lump, pitchMask) ==
    [lumpnum |-> lump, link |-> NO_LINK, Volume |-> 100, Attenuation |-> 1,
     PitchMask |-> pitchMask, NearLimit |-> 2, LimitRange |-> 256 * 256,
     bRandomHeader |-> FALSE, bLoadRAW |-> FALSE, bSingular |-> FALSE,
     bTentative |-> FALSE, bUsed |-> FALSE, data |-> NoHandle,
     data3d |-> NoHandle, Rolloff |-> NoRolloff]

\* The loader and the decoders: the lumps that exist and decode.  A lump
\* that is missing or does not decode gives an invalid handle.
GoodLumps == {0, 1, 2}
Decodes(lump) == lump \in GoodLumps

\* GSnd->IsNull(): the engine runs on a real backend.
GSnd_IsNull == FALSE

\* LoadSound without "if (sfx->Rolloff.MinDistance == 0) sfx->Rolloff = S_Rolloff".
LinkedRolloff_Keeps(rolloff) == rolloff

\* The rolloff of an entry that LoadSound links to a loaded copy of its lump.
LinkedRolloff(rolloff) == IF rolloff.MinDistance = 0 THEN S_Rolloff ELSE rolloff

\* tried are the lumps ReadSound was called for, in order.
RECURSIVE LoadSound(_, _)
LoadSound(e, sfx) ==
    IF GSnd_IsNull \/ e.S_sfx[sfx].data # NoHandle THEN [e EXCEPT !.ret = sfx]
    ELSE
    LET e1 == IF e.S_sfx[sfx].lumpnum = NO_LUMP
              THEN [e EXCEPT !.S_sfx[sfx].lumpnum = sfx_empty] ELSE e
        lump == e1.S_sfx[sfx].lumpnum
        dups == {i \in DOMAIN e1.S_sfx :
                    /\ e1.S_sfx[i].data # NoHandle
                    /\ e1.S_sfx[i].link = NO_LINK
                    /\ e1.S_sfx[i].lumpnum = lump}
        e2 == [e1 EXCEPT !.tried = Append(@, lump)]
    IN  IF dups # {}
        THEN LET i == CHOOSE x \in dups : \A y \in dups : x <= y
             IN  [e1 EXCEPT !.S_sfx[sfx].link = i,
                            !.S_sfx[sfx].Rolloff = LinkedRolloff(@),
                            !.ret = i]
        ELSE IF Decodes(lump)
        THEN [e2 EXCEPT !.S_sfx[sfx].data = Handle2D(sfx), !.ret = sfx]
        ELSE IF lump # sfx_empty
        THEN LoadSound([e2 EXCEPT !.S_sfx[sfx].lumpnum = sfx_empty], sfx)
        ELSE [e2 EXCEPT !.ret = sfx]

LoadSound3D(e, sfx) ==
    IF GSnd_IsNull \/ e.S_sfx[sfx].data3d # NoHandle THEN e
    ELSE IF Decodes(e.S_sfx[sfx].lumpnum)
    THEN [e EXCEPT !.S_sfx[sfx].data3d = Handle3D(sfx)]
    ELSE e

\* CacheSound for an entry that leads to no random header: both versions of
\* the sound the links end in are loaded.
RECURSIVE CacheSound(_, _)
CacheSound(e, i) ==
    IF ~e.S_sfx[i].bRandomHeader /\ e.S_sfx[i].link # NO_LINK
    THEN CacheSound(e, e.S_sfx[i].link)
    ELSE IF e.S_sfx[i].bRandomHeader THEN e
    ELSE LET e1 == LoadSound(e, i)
             e2 == LoadSound3D(e1, i)
         IN  [e2 EXCEPT !.S_sfx[i].bUsed = TRUE]

\* The table after the sounds 1..n have been cached, one after the other.
RECURSIVE CacheAll(_, _)
CacheAll(e, n) == IF n = 0 THEN e ELSE CacheSound(CacheAll(e, n - 1), n)

\* PickReplacement: draws is the sequence of the values rand() will return;
\* the result is <<the sound picked, the draws left>>.
RECURSIVE PickReplacement(_, _, _)
PickReplacement(e, refid, draws) ==
    IF ~e.S_sfx[refid].bRandomHeader THEN <<refid, draws>>
    ELSE LET list == e.S_rnd[e.S_sfx[refid].link]
         IN  PickReplacement(e,
                 list.Choices[(Head(draws) % Len(list.Choices)) + 1], Tail(draws))

\* AddRandomSound that leaves the header's own NearLimit in place.
AddRandomSound_KeepsLimit(e, Owner, list) ==
    LET index == Cardinality(DOMAIN e.S_rnd)
    IN  [e EXCEPT !.S_rnd = @ @@ (index :> [Choices |-> list, Owner |-> Owner]),
                  !.S_sfx[Owner].link = index,
                  !.S_sfx[Owner].bRandomHeader = TRUE]

\* AddRandomSound: sound Owner becomes the header of the random list.
AddRandomSound(e, Owner, list) ==
    LET index == Cardinality(DOMAIN e.S_rnd)
    IN  [e EXCEPT !.S_rnd = @ @@ (index :> [Choices |-> list, Owner |-> Owner]),
                  !.S_sfx[Owner].link = index,
                  !.S_sfx[Owner].bRandomHeader = TRUE,
                  !.S_sfx[Owner].NearLimit = -1]

-----------------------------------------------------------------------------
(* The backend's StartSound / StartSound3D.  It refuses (NULL) or it gives  *)
(* the sound a voice: on reuse_chan when one is passed, else on a channel   *)
(* it takes from the engine with GetChannel.                                *)

Voice == 1

GSnd_StartSound(e0, handle, reuse_chan, accept) ==
    LET e == [e0 EXCEPT !.asked = Append(@, reuse_chan)] IN
    IF ~accept \/ handle = NoHandle THEN [e EXCEPT !.ret = NULLP]
    ELSE IF reuse_chan = NULLP
    THEN LET e1 == GetChannel(e, Voice)
         IN  [e1 EXCEPT !.accepted = @ \cup {e1.ret}]
    ELSE [e EXCEPT !.chan[reuse_chan].SysChannel = Voice, !.ret = reuse_chan,
                   !.accepted = @ \cup {reuse_chan}]

\* StartSound3D plays the 3D version of entry sfx.
GSnd_StartSound3D(e, sfx, reuse_chan, accept) ==
    GSnd_StartSound(e, e.S_sfx[sfx].data3d, reuse_chan, accept)

\* GSnd->MarkStartTime: the channel's start time is the backend's clock.
GSnd_MarkStartTime(e, c) == [e EXCEPT !.chan[c].StartTime = 0]


-----------------------------------------------------------------------------
(* StartSound *)

RECURSIVE SumSet(_)
SumSet(S) == IF S = {} THEN 0
             ELSE LET x == CHOOSE y \in S : TRUE IN x + SumSet(S \ {x})

\* a & m
BitAnd(a, m) == SumSet(BitsOf(a) \cap BitsOf(m))

NoPoint == <<>>     \* pt == nullptr

\* The loop's variables when the loop is entered.
LinkStart(e, sound_id, attenuation, draws) ==
    [sound_id |-> sound_id, attenuation |-> attenuation,
     near_limit |-> e.S_sfx[sound_id].NearLimit,
     limit_range |-> e.S_sfx[sound_id].LimitRange,
     rolloff |-> e.S_sfx[sound_id].Rolloff, draws |-> draws]

\* One iteration of the link resolution loop: the loop's variables r after
\* the sound has become pick[1], pick[2] being the draws left.
LinkStep(e, r, pick) ==
    [sound_id |-> pick[1],
     attenuation |-> IF e.S_sfx[r.sound_id].bRandomHeader
                     THEN r.attenuation * e.S_sfx[r.sound_id].Attenuation
                     ELSE r.attenuation,
     near_limit |-> IF r.near_limit < 0
                    THEN e.S_sfx[pick[1]].NearLimit ELSE r.near_limit,
     limit_range |-> IF r.near_limit < 0
                     THEN e.S_sfx[pick[1]].LimitRange ELSE r.limit_range,
     rolloff |-> IF r.rolloff.MinDistance = 0
                 THEN e.S_sfx[pick[1]].Rolloff ELSE r.rolloff,
     draws |-> pick[2]]

\* The link resolution loop.  r holds the loop's variables; draws is what
\* rand() returns to PickReplacement.
RECURSIVE ResolveLinks(_, _, _)
ResolveLinks(e, r, draws) ==
    LET sfx == e.S_sfx[r.sound_id]
    IN  IF sfx.link = NO_LINK THEN r
        ELSE
        LET pick == IF sfx.bRandomHeader
                    THEN PickReplacement(e, r.sound_id, draws)
                    ELSE <<sfx.link, draws>>
        IN  ResolveLinks(e, LinkStep(e, r, pick), pick[2])

\* The search from 7 down that gives up at once.
AutoScan_None(e, type, source, channel, seen) == <<0, seen>>

\* The search for a free slot from 7 down: <<channel, seen>>, channel 0 when
\* every slot is in use.
RECURSIVE AutoScan(_, _, _, _, _)
AutoScan(e, type, source, channel, seen) ==
    IF channel = 0 THEN <<0, seen>>
    ELSE LET u == IsChannelUsed(e, type, source, channel, seen)
         IN  IF ~u[1] THEN <<channel, u[2]>>
             ELSE AutoScan(e, type, source, channel - 1, u[2])

\* The search that takes the first channel of the list, whatever it plays.
FindPlaying_Head(e, l, type, source, pt, channel) ==
    IF l = <<>> THEN NULLP ELSE Head(l)

\* The search that finds no channel to stop.
FindPlaying_None(e, l, type, source, pt, channel) == NULLP

\* The channel StartSound stops because it plays on the selected slot: the
\* first one in the list, NULL when there is none.
RECURSIVE FindPlaying(_, _, _, _, _, _)
FindPlaying(e, l, type, source, pt, channel) ==
    IF l = <<>> THEN NULLP
    ELSE LET c == e.chan[Head(l)]
         IN  IF /\ c.SourceType = type
                /\ c.EntChannel = channel
                /\ IF type = SOURCE_Unattached THEN c.Point = pt
                   ELSE c.Source = source
             THEN Head(l)
             ELSE FindPlaying(e, Tail(l), type, source, pt, channel)

SetPitch(e, c, pitch) ==
    [e EXCEPT !.chan[c].Pitch =
        IF (DEFAULT_PITCH * pitch) \div 100 < 1 THEN 1
        ELSE (DEFAULT_PITCH * pitch) \div 100]

\* StartSound runs in the stages below, last stage first.  a holds the
\* locals of the function; every stage takes the engine as the stage before
\* left it.

StartSoundPitch(e, c, spitch) == IF spitch > 0 THEN SetPitch(e, c, spitch) ELSE e

\* The channel chan, if there is one, is filled in.
StartSoundRecord(e, a, chanflags) ==
    IF e.ret = NULLP THEN e
    ELSE StartSoundPitch(
             [e EXCEPT
                !.chan[e.ret].SoundID = a.sound_id,
                !.chan[e.ret].OrgID = a.org_id,
                !.chan[e.ret].EntChannel = a.channel,
                !.chan[e.ret].Volume = a.volume,
                !.chan[e.ret].ChanFlags = @ \cup chanflags,
                !.chan[e.ret].NearLimit = a.near_limit,
                !.chan[e.ret].LimitRange = a.limit_range,
                !.chan[e.ret].Pitch = a.pitch,
                !.chan[e.ret].Priority = a.basepriority,
                !.chan[e.ret].DistanceScale = a.attenuation,
                !.chan[e.ret].SourceType = a.type,
                !.chan[e.ret].Point =
                    IF a.type = SOURCE_Unattached THEN a.pt ELSE @,
                !.chan[e.ret].Source =
                    IF a.type # SOURCE_Unattached /\ a.type # SOURCE_None
                    THEN a.source ELSE @],
             e.ret, a.spitch)

\* The flags every new channel gets.
StartedFlags(a) ==
    IF a.attenuation > 0 THEN {CHAN_IS3D, CHAN_JUSTSTARTED}
    ELSE {CHAN_LISTENERZ, CHAN_JUSTSTARTED}

\* GSnd->MarkStartTime for the channel GetChannel has just returned.
MarkNew(e) == GSnd_MarkStartTime(e, e.ret)

\* StartSound without the fallback that parks a looping sound.
StartSoundPark_Never(e, a) ==
    StartSoundRecord(e, a, a.chanflags \cup StartedFlags(a))

\* The backend has answered (e.ret): a looping sound without a voice is parked.
StartSoundPark(e, a) ==
    IF e.ret = NULLP /\ CHAN_LOOP \in a.chanflags
    THEN StartSoundRecord(MarkNew(GetChannel(e, NULLP)), a,
                          a.chanflags \cup {CHAN_EVICTED} \cup StartedFlags(a))
    ELSE StartSoundRecord(e, a, a.chanflags \cup StartedFlags(a))

\* StartSound without the pause gate.
StartSoundTail_NoGate(e, a, accept) ==
    IF CHAN_EVICTED \in a.chanflags
    THEN StartSoundPark([e EXCEPT !.ret = NULLP], a)
    ELSE IF a.attenuation > 0
    THEN StartSoundPark(GSnd_StartSound3D(LoadSound3D(e, a.sfx), a.sfx, NULLP, accept), a)
    ELSE StartSoundPark(GSnd_StartSound(e, e.S_sfx[a.sfx].data, NULLP, accept), a)

\* The pause gate, and the sound goes to the backend unless it is blocked.
StartSoundTail(e, a, accept) ==
    IF /\ CHAN_LOOP \notin a.chanflags
       /\ a.chanflags \cap {CHAN_UI, CHAN_NOPAUSE} = {}
       /\ e.SoundPaused
    THEN [e EXCEPT !.ret = NULLP]
    ELSE IF CHAN_EVICTED \in a.chanflags
    THEN StartSoundPark([e EXCEPT !.ret = NULLP], a)
    ELSE IF a.attenuation > 0
    THEN StartSoundPark(GSnd_StartSound3D(LoadSound3D(e, a.sfx), a.sfx, NULLP, accept), a)
    ELSE StartSoundPark(GSnd_StartSound(e, e.S_sfx[a.sfx].data, NULLP, accept), a)

\* What the actor plays on the selected slot is stopped.  sel is the slot
\* selection: <<channel, seen, a slot was found>>.
StartSoundSlot(e, a, sel, accept) ==
    IF ~sel[3] THEN [e EXCEPT !.ret = NULLP]
    ELSE IF /\ a.type # SOURCE_None
            /\ \/ a.source = NULLP /\ sel[1] # CHAN_AUTO
               \/ /\ a.source # NULLP
                  /\ IsChannelUsed(e, a.type, a.source, sel[1], sel[2])[1]
    THEN StartSoundTail(
             StopChannel(e, FindPlaying(e, ActiveOf(e), a.type, a.source, a.pt,
                                        sel[1]), 0),
             [a EXCEPT !.channel = sel[1]], accept)
    ELSE StartSoundTail(e, [a EXCEPT !.channel = sel[1]], accept)

\* The result of the search from slot 7 down.
AutoFound(sel) == <<sel[1], sel[2], sel[1] # 0>>

\* u0 is what IsChannelUsed says of slot 0.
SelectFrom(e, type, source, u0) ==
    IF ~u0[1] THEN <<0, u0[2], TRUE>>
    ELSE AutoFound(AutoScan(e, type, source, 7, u0[2]))

\* The slot for the sound: <<channel, seen, a slot was found>>.
SelectSlot(e, type, source, channel) ==
    IF source # NULLP /\ channel = CHAN_AUTO
    THEN SelectFrom(e, type, source, IsChannelUsed(e, type, source, 0, {}))
    ELSE <<channel, {}, TRUE>>

\* StartSound without "if (sfx->lumpnum == sfx_empty) return NULL".
StartSoundLoaded_PlaysEmpty(e, a, accept) ==
    StartSoundSlot(e,
        a @@ [sfx |-> e.ret,
              basepriority |->
                  IF a.type = SOURCE_None \/ a.source = ListenerObject
                  THEN 80 ELSE 0],
        SelectSlot(e, a.type, a.source, a.channel), accept)

\* LoadSound has run (e.ret is the entry it returned): the empty sound
\* never plays; the priority.
StartSoundLoaded(e, a, accept) ==
    IF e.S_sfx[e.ret].lumpnum = sfx_empty THEN [e EXCEPT !.ret = NULLP]
    ELSE StartSoundSlot(e,
             a @@ [sfx |-> e.ret,
                   basepriority |->
                       IF a.type = SOURCE_None \/ a.source = ListenerObject
                       THEN 80 ELSE 0],
             SelectSlot(e, a.type, a.source, a.channel), accept)

\* The singular check and the near limit have set blocked.
StartSoundChecked(e, a, blocked, accept) ==
    IF blocked /\ CHAN_LOOP \notin a.chanflags THEN [e EXCEPT !.ret = NULLP]
    ELSE StartSoundLoaded(LoadSound(e, a.sound_id),
             [a EXCEPT !.chanflags =
                 IF blocked THEN @ \cup {CHAN_EVICTED} ELSE @],
             accept)

\* The near limit of the sound from this source.
NearLimitOf(type, source, near_limit) ==
    IF type = SOURCE_None \/ source = ListenerObject THEN 0 ELSE near_limit

\* The links are resolved (r): the checks that block the sound.  d are the
\* draws of rand() for the pitch.
StartSoundLinked(e, a, r, pitchmask, accept) ==
    StartSoundChecked(e,
        a @@ [sound_id |-> r.sound_id,
              attenuation |-> r.attenuation * e.S_sfx[r.sound_id].Attenuation,
              near_limit |-> NearLimitOf(a.type, a.source, r.near_limit),
              limit_range |-> r.limit_range,
              pitch |-> IF pitchmask # 0
                        THEN DEFAULT_PITCH - BitAnd(r.draws[1], pitchmask)
                                           + BitAnd(r.draws[2], pitchmask)
                        ELSE DEFAULT_PITCH],
        \/ e.S_sfx[r.sound_id].bSingular /\ CheckSingular(e, r.sound_id)
        \/ /\ NearLimitOf(a.type, a.source, r.near_limit) > 0
           /\ CheckSoundLimit(e, r.sound_id, a.pos,
                  NearLimitOf(a.type, a.source, r.near_limit), r.limit_range,
                  a.type, IF a.type = SOURCE_Actor THEN a.source ELSE NULLP,
                  a.channel),
        accept)

\* The sound's own volume scales the volume passed.
StartSoundScaled(e, a, sound_id, draws, accept) ==
    IF ~ValidatePosVel(a.type, a.source, a.pos) \/ a.volume <= 0
    THEN [e EXCEPT !.ret = NULLP]
    ELSE StartSoundLinked(e, a,
             ResolveLinks(e, LinkStart(e, sound_id, a.attenuation0, draws), draws),
             e.S_sfx[sound_id].PitchMask, accept)

\* type and pt after "if (type == SOURCE_Unattached && pt == nullptr)".
StartSoundFrom(e, type, source, pt, channel, sound_id, volume, attenuation, spitch, draws, accept) ==
    StartSoundScaled(e,
        [type |-> type, source |-> source, pt |-> pt,
         channel |-> channel % 8, chanflags |-> BitsOf(channel) \ {1, 2, 4},
         org_id |-> sound_id,
         volume |-> Min((volume * e.S_sfx[sound_id].Volume) \div 100, 100),
         attenuation0 |-> attenuation, spitch |-> spitch,
         pos |-> CalcPosVel(type, source, pt)],
        sound_id, draws, accept)

\* StartSound(type, source, pt, channel, sound_id, volume, attenuation,
\* NULL, spitch); nosound is nosfx || nosound; draws is what rand() will
\* return; accept is the backend's answer.  The rolloff chosen goes to the
\* backend only.  The engine returned has ret set to the channel returned.
StartSound(e, type, source, pt, channel, sound_id, volume, attenuation, spitch, nosound, draws, accept) ==
    IF sound_id <= 0 \/ volume <= 0 \/ nosound THEN [e EXCEPT !.ret = NULLP]
    ELSE StartSoundFrom(e,
             IF type = SOURCE_Unattached /\ pt = NoPoint THEN SOURCE_None ELSE type,
             source, pt, channel, sound_id, volume, attenuation, spitch, draws,
             accept)


-----------------------------------------------------------------------------
(* Restart, evict, restore, update *)

\* RestartChannel without "chan->ChanFlags = oldflags" after a refusal.
RestartAnswered_Keeps(b, c, oldflags) == b


\* The backend has answered the restart of c (b.ret): without a voice the
\* channel gets its flags back.
RestartAnswered(b, c, oldflags) ==
    IF b.ret = NULLP THEN [b EXCEPT !.chan[c].ChanFlags = oldflags] ELSE b

\* RestartChannel without "chan->ChanFlags &= ~(CHAN_EVICTED|CHAN_ABSTIME)".
Cleared_Not(e, c) == e

\* The engine with CHAN_EVICTED and CHAN_ABSTIME cleared on c.
Cleared(e, c) ==
    [e EXCEPT !.chan[c].ChanFlags = @ \ {CHAN_EVICTED, CHAN_ABSTIME}]

\* RestartChannel once LoadSound has run (e.ret is the entry it returned).
RestartLoaded(e, c, accept) ==
    IF e.S_sfx[e.ret].lumpnum = sfx_empty THEN e
    ELSE IF CHAN_IS3D \in e.chan[c].ChanFlags
    THEN IF ~ValidatePosVel(e.chan[c].SourceType, e.chan[c].Source,
                            CalcPosVelChan(e.chan[c]))
         THEN e
         ELSE IF e.chan[c].NearLimit > 0
                 /\ CheckSoundLimit(e, e.chan[c].SoundID, CalcPosVelChan(e.chan[c]),
                        e.chan[c].NearLimit, e.chan[c].LimitRange, 0, NULLP, 0)
         THEN e
         ELSE RestartAnswered(
                  GSnd_StartSound3D(LoadSound3D(Cleared(e, c), e.ret), e.ret, c,
                                    accept),
                  c, e.chan[c].ChanFlags)
    ELSE RestartAnswered(
             GSnd_StartSound(Cleared(e, c), e.S_sfx[e.ret].data, c, accept),
             c, e.chan[c].ChanFlags)

\* RestartChannel; accept is the backend's answer, should it be asked.
RestartChannel(e, c, accept) ==
    IF e.S_sfx[e.chan[c].SoundID].bSingular /\ CheckSingular(e, e.chan[c].SoundID)
    THEN e
    ELSE RestartLoaded(LoadSound(e, e.chan[c].SoundID), c, accept)

\* The loop body without StopChannel: the channel is flagged and plays on.
EvictChannel_NoStop(e, c, pos) ==
    [e EXCEPT !.chan[c].ChanFlags = @ \cup {CHAN_EVICTED}]

\* The body of EvictAllChannels' loop for a channel c that is not evicted;
\* pos is GetPosition's answer.
EvictChannel(e, c, pos) ==
    LET ch == e.chan[c]
    IN  IF ch.SysChannel = NULLP
        THEN [e EXCEPT !.chan[c].ChanFlags = @ \cup {CHAN_EVICTED}]
        ELSE LET e2 == IF CHAN_ABSTIME \in ch.ChanFlags
                       THEN [e EXCEPT !.chan[c].ChanFlags = @ \cup {CHAN_EVICTED}]
                       ELSE [e EXCEPT
                               !.chan[c].ChanFlags =
                                   @ \cup {CHAN_EVICTED, CHAN_ABSTIME},
                               !.chan[c].StartTime = pos]
             IN  StopChannel(e2, c, pos)

\* The loop of EvictAllChannels from channel c on.
RECURSIVE EvictFrom(_, _, _)
EvictFrom(e, c, pos) ==
    IF c = NULLP THEN e
    ELSE
    LET next == e.chan[c].NextChan
        e1 == IF CHAN_EVICTED \in e.chan[c].ChanFlags THEN e
              ELSE EvictChannel(e, c, pos)
    IN  EvictFrom(e1, next, pos)

EvictAllChannels(e, pos) == EvictFrom(e, e.Channels, pos)

\* RestoreEvictedChannel that leaves the channel as RestartChannel left it.
AfterRestart_Keeps(e, c) == e

\* RestoreEvictedChannel without "chan->ChanFlags |= CHAN_FORGETTABLE".
AfterRestart_NoForget(e, c) ==
    IF CHAN_LOOP \notin e.chan[c].ChanFlags /\ CHAN_EVICTED \in e.chan[c].ChanFlags
    THEN ReturnChannel(e, c)
    ELSE e

\* What RestoreEvictedChannel does with channel c once RestartChannel is back.
AfterRestart(e, c) ==
    LET f == e.chan[c].ChanFlags
    IN  IF CHAN_LOOP \in f THEN e
        ELSE IF CHAN_EVICTED \in f THEN ReturnChannel(e, c)
        ELSE IF CHAN_JUSTSTARTED \notin f
        THEN [e EXCEPT !.chan[c].ChanFlags = @ \cup {CHAN_FORGETTABLE}]
        ELSE e

\* RestoreEvictedChannel that goes on to chan->NextChan after the channel.
RECURSIVE RestoreEvictedChannel_HeadFirst(_, _, _)
RestoreEvictedChannel_HeadFirst(e, c, acc) ==
    IF c = NULLP THEN e
    ELSE RestoreEvictedChannel_HeadFirst(
             IF CHAN_EVICTED \in e.chan[c].ChanFlags
             THEN AfterRestart(RestartChannel(e, c, acc[c]), c)
             ELSE e,
             e.chan[c].NextChan, acc)

\* RestoreEvictedChannel; acc[c] is the backend's answer for channel c.
RECURSIVE RestoreEvictedChannel(_, _, _)
RestoreEvictedChannel(e0, c, acc) ==
    IF c = NULLP THEN e0
    ELSE
    LET e == RestoreEvictedChannel(e0, e0.chan[c].NextChan, acc)
    IN  IF CHAN_EVICTED \in e.chan[c].ChanFlags
        THEN AfterRestart(RestartChannel(e, c, acc[c]), c)
        ELSE IF /\ e.chan[c].SysChannel = NULLP
                /\ e.chan[c].ChanFlags \cap {CHAN_FORGETTABLE, CHAN_LOOP}
                       = {CHAN_FORGETTABLE}
        THEN ReturnChannel(e, c)
        ELSE e

RestoreEvictedChannels(e, acc) == RestoreEvictedChannel(e, e.Channels, acc)

\* UpdateSounds(time).  The 3D refresh and the listener update change the
\* backend only.
ClearJustStarted(e) ==
    [e EXCEPT !.chan = [c \in DOMAIN @ |->
        IF c \in Range(ActiveOf(e))
        THEN [@[c] EXCEPT !.ChanFlags = @ \ {CHAN_JUSTSTARTED}]
        ELSE @[c]]]

\* UpdateSounds without "if (time >= RestartEvictionsAt)".
UpdateSounds_NoFence(e, time, acc) ==
    RestoreEvictedChannels([ClearJustStarted(e) EXCEPT !.RestartEvictionsAt = 0], acc)

UpdateSounds(e, time, acc) ==
    LET e1 == ClearJustStarted(e)
    IN  IF time >= e1.RestartEvictionsAt
        THEN RestoreEvictedChannels([e1 EXCEPT !.RestartEvictionsAt = 0], acc)
        ELSE e1

\* Reset: the backend is closed and opened again between the two calls.
Reset(e, pos, acc) == RestoreEvictedChannels(EvictAllChannels(e, pos), acc)

-----------------------------------------------------------------------------
(* Stopping *)

\* The loops of StopSound, StopAllChannels and RelinkSound visit the channel
\* c, having read c->NextChan first.
RECURSIVE StopNoneFrom(_, _)
StopNoneFrom(e, c) ==
    IF c = NULLP THEN e
    ELSE LET next == e.chan[c].NextChan
         IN  StopNoneFrom(IF e.chan[c].SourceType = SOURCE_None
                          THEN StopChannel(e, c, 0) ELSE e, next)

\* StopSound(channel)
StopSound(e, channel) == StopNoneFrom(e, e.Channels)

RECURSIVE StopSourceFrom(_, _, _, _, _)
StopSourceFrom(e, c, sourcetype, actor, channel) ==
    IF c = NULLP THEN e
    ELSE LET next == e.chan[c].NextChan
             ch == e.chan[c]
         IN  StopSourceFrom(
                 IF /\ ch.SourceType = sourcetype
                    /\ ch.Source = actor
                    /\ (ch.EntChannel = channel \/ channel < 0)
                 THEN StopChannel(e, c, 0) ELSE e,
                 next, sourcetype, actor, channel)

\* StopSound(sourcetype, actor, channel)
StopSoundSource(e, sourcetype, actor, channel) ==
    StopSourceFrom(e, e.Channels, sourcetype, actor, channel)

RECURSIVE StopAllFrom(_, _)
StopAllFrom(e, c) ==
    IF c = NULLP THEN e
    ELSE LET next == e.chan[c].NextChan
         IN  StopAllFrom(StopChannel(e, c, 0), next)

StopAllChannels(e) == StopAllFrom(e, e.Channels)

RECURSIVE RelinkFrom(_, _, _, _, _, _)
RelinkFrom(e, c, sourcetype, from, to, optpos) ==
    IF c = NULLP THEN e
    ELSE
    LET next == e.chan[c].NextChan
        ch == e.chan[c]
        e1 == IF ch.SourceType = sourcetype /\ ch.Source = from
              THEN IF to # NULLP THEN [e EXCEPT !.chan[c].Source = to]
                   ELSE IF CHAN_LOOP \notin ch.ChanFlags /\ optpos # NoPoint
                   THEN [e EXCEPT !.chan[c].Source = NULLP,
                                  !.chan[c].SourceType = SOURCE_Unattached,
                                  !.chan[c].Point = optpos]
                   ELSE StopChannel(e, c, 0)
              ELSE e
    IN  RelinkFrom(e1, next, sourcetype, from, to, optpos)

RelinkSound(e, sourcetype, from, to, optpos) ==
    IF from = NULLP THEN e
    ELSE RelinkFrom(e, e.Channels, sourcetype, from, to, optpos)

\* Init: every active channel goes back to the free list.
RECURSIVE EngineInit(_)
EngineInit(e) ==
    IF e.Channels = NULLP THEN e
    ELSE EngineInit(ReturnChannel(e, e.Channels))


-----------------------------------------------------------------------------
(* The engine's calls as actions.  A call is one step: the engine is        *)
(* single-threaded and no call suspends.                                    *)

\* The call leaves no more than cap channel objects allocated.
Fits(e, cap) == Cardinality(DOMAIN e.chan) <= cap

NoDraws == <<0, 0>>

DoStartSound(type, source, pt, channel, sound_id, volume, attenuation, accept, cap) ==
    LET e == StartSound(Engine, type, source, pt, channel, sound_id, volume,
                        attenuation, 0, FALSE, NoDraws, accept)
    IN  /\ Fits(e, cap)
        /\ Becomes("StartSound", e, e.ret)

\* StartSound while rand() returns the values draws.
DoStartSoundDrawn(type, source, channel, sound_id, draws, accept, cap) ==
    LET e == StartSound(Engine, type, source, NoPoint, channel, sound_id, 100,
                        1, 0, FALSE, draws, accept)
    IN  /\ Fits(e, cap)
        /\ Becomes("StartSound", e, e.ret)

DoStopChannel(c) ==
    /\ c \in Range(ActiveOf(Engine))
    /\ Becomes("StopChannel", StopChannel(Engine, c, 0), NULLP)

DoStopSound(channel) ==
    /\ Becomes("StopSound", StopSound(Engine, channel), NULLP)

DoStopSoundSource(sourcetype, actor, channel) ==
    /\ Becomes("StopSoundSource", StopSoundSource(Engine, sourcetype, actor, channel), NULLP)

DoStopAllChannels ==
    /\ Becomes("StopAllChannels", StopAllChannels(Engine), NULLP)

DoRelinkSound(sourcetype, from, to, optpos) ==
    /\ Becomes("RelinkSound", RelinkSound(Engine, sourcetype, from, to, optpos), NULLP)

\* The backend reports that the voice of channel c has ended, at position pos.
DoChannelEnded(c, pos) ==
    /\ c \in Range(ActiveOf(Engine))
    /\ chan[c].SysChannel # NULLP
    /\ Becomes("ChannelEnded", ChannelEnded(Engine, c, pos, SampleLength), NULLP)

DoEvictAllChannels(pos) ==
    /\ Becomes("EvictAllChannels", EvictAllChannels(Engine, pos), NULLP)

DoRestoreEvictedChannels(acc) ==
    /\ Becomes("RestoreEvictedChannels", RestoreEvictedChannels(Engine, acc), NULLP)

DoUpdateSounds(time, acc) ==
    /\ Becomes("UpdateSounds", UpdateSounds(Engine, time, acc), NULLP)

DoReset(pos, acc) ==
    /\ Becomes("Reset", Reset(Engine, pos, acc), NULLP)

DoSetRestartTime(time) ==
    /\ Becomes("SetRestartTime", [Engine EXCEPT !.RestartEvictionsAt = time], NULLP)

DoSetPaused(on) ==
    /\ Becomes("SetPaused", [Engine EXCEPT !.SoundPaused = on], NULLP)

DoInit ==
    /\ Becomes("Init", EngineInit(Engine), NULLP)

\* The backend takes a channel from the engine for the voice syschan.
DoGetChannel(syschan, cap) ==
    LET e == GetChannel(Engine, syschan)
    IN  /\ Fits(e, cap)
        /\ Becomes("GetChannel", e, e.ret)

-----------------------------------------------------------------------------
(* The registries the client sets up, every sound cached before play.       *)

\* A plain sound that allows one copy nearby (1) and a singular sound (2).
Sounds ==
    <<[NewSfx(1, 0) EXCEPT !.NearLimit = 1, !.LimitRange = 16],
      [NewSfx(2, 0) EXCEPT !.bSingular = TRUE]>>

\* A singular sound (1) and an alias of it (2), neither limited.
SingularSounds ==
    <<[NewSfx(1, 0) EXCEPT !.bSingular = TRUE, !.NearLimit = 0],
      [NewSfx(NO_LUMP, 0) EXCEPT !.link = 1, !.NearLimit = 0]>>

\* A sound that allows two copies within a distance of 4.
LimitSounds == <<[NewSfx(1, 0) EXCEPT !.NearLimit = 2, !.LimitRange = 16]>>

\* A sound without a limit.
AutoSounds == <<[NewSfx(1, 0) EXCEPT !.NearLimit = 0]>>

\* The table with entry 0, the null sound, in front.
SfxTable(sounds) ==
    [i \in 0..Len(sounds) |-> IF i = 0 THEN NewSfx(sfx_empty, 0) ELSE sounds[i]]

Cached(table) ==
    CacheAll([S_sfx |-> table, ret |-> NULLP, tried |-> <<>>],
             Cardinality(DOMAIN table) - 1).S_sfx

\* The engine after construction, with the registry sounds.
InitEngine(sounds) ==
    /\ chan = <<>>
    /\ Channels = NULLP
    /\ FreeChannels = NULLP
    /\ S_sfx = Cached(SfxTable(sounds))
    /\ S_rnd = <<>>
    /\ RestartEvictionsAt = 0
    /\ SoundPaused = FALSE
    /\ last = [op |-> "new", ret |-> NULLP, accepted |-> {}]
    /\ res = NoLoop

\* The engine after construction, no serializer in use.
InitWith(sounds) ==
    /\ InitEngine(sounds)
    /\ arc = NoArc
    /\ app = NoApp

\* The backend's answers to the restarts of a call, one per channel.
Answers(n) == [1..n -> BOOLEAN]

\* Where the sounds of the actor that is removed go.
FarPoint == <<8, 0, 0>>
NearPoint == <<0, 0, 0>>

-----------------------------------------------------------------------------
(* Spec: the life of a channel.  One actor starts sounds on slot AUTO, on   *)
(* slot 1 and looping; channels end, are stopped, evicted and restored.     *)

Init == InitWith(Sounds)

StartChannels == {CHAN_AUTO, 1, CHAN_LOOP}

Next ==
    \/ \E channel \in StartChannels, id \in {1, 2}, accept \in BOOLEAN :
          DoStartSound(SOURCE_Actor, 2, NoPoint, channel, id, 100, 1, accept, MaxChans)
    \/ \E c \in DOMAIN chan : DoStopChannel(c)
    \/ \E channel \in {-1, 1} : DoStopSoundSource(SOURCE_Actor, 2, channel)
    \/ DoStopAllChannels
    \/ \E optpos \in {NoPoint, FarPoint} : DoRelinkSound(SOURCE_Actor, 2, NULLP, optpos)
    \/ \E c \in DOMAIN chan, pos \in {0, SampleLength} : DoChannelEnded(c, pos)
    \/ \E pos \in 0..MaxPos : DoEvictAllChannels(pos)
    \/ \E acc \in Answers(MaxChans) : DoRestoreEvictedChannels(acc)
    \/ \E acc \in Answers(MaxChans) : DoUpdateSounds(0, acc)
    \/ \E pos \in 0..MaxPos, acc \in Answers(MaxChans) : DoReset(pos, acc)
    \/ DoInit

Spec == Init /\ [][Next]_vars

-----------------------------------------------------------------------------
(* SpecPool: the pool under every call that moves a channel between the     *)
(* lists, the backend's bare GetChannel included.                           *)

InitPool == InitWith(Sounds)

NextPool ==
    \/ \E syschan \in {NULLP, Voice} : DoGetChannel(syschan, MaxChans)
    \/ \E s \in {<<SOURCE_Actor, 2>>, <<SOURCE_None, NULLP>>},
          channel \in {CHAN_AUTO, CHAN_LOOP}, accept \in BOOLEAN :
          DoStartSound(s[1], s[2], NoPoint, channel, 1, 100, 1, accept, MaxChans)
    \/ \E c \in DOMAIN chan : DoStopChannel(c)
    \/ DoStopSound(CHAN_AUTO)
    \/ DoStopSoundSource(SOURCE_Actor, 2, -1)
    \/ DoStopAllChannels
    \/ \E optpos \in {NoPoint, FarPoint} : DoRelinkSound(SOURCE_Actor, 2, NULLP, optpos)
    \/ \E c \in DOMAIN chan, pos \in {0, SampleLength} : DoChannelEnded(c, pos)
    \/ \E pos \in 0..MaxPos : DoEvictAllChannels(pos)
    \/ \E acc \in Answers(MaxChans) : DoRestoreEvictedChannels(acc)
    \/ \E acc \in Answers(MaxChans) : DoUpdateSounds(0, acc)
    \/ DoInit

SpecPool == InitPool /\ [][NextPool]_vars

-----------------------------------------------------------------------------
(* SpecSingular: a singular sound and its alias, started by one actor,      *)
(* restored and updated.                                                    *)

InitSingular == InitWith(SingularSounds)

NextSingular ==
    \/ \E channel \in {CHAN_AUTO, CHAN_LOOP}, id \in {1, 2}, accept \in BOOLEAN :
          DoStartSound(SOURCE_Actor, 2, NoPoint, channel, id, 100, 1, accept, MaxChans)
    \/ \E c \in DOMAIN chan, pos \in {0, SampleLength} : DoChannelEnded(c, pos)
    \/ \E acc \in Answers(MaxChans) : DoRestoreEvictedChannels(acc)
    \/ \E acc \in Answers(MaxChans) : DoUpdateSounds(0, acc)

SpecSingular == InitSingular /\ [][NextSingular]_vars

-----------------------------------------------------------------------------
(* SpecLimit: a sound limited to two copies nearby, started at three        *)
(* places in a row (0, 4 and 8), at 0 also by the listener, who is never    *)
(* limited.  The backend has a voice for every sound.                       *)

InitLimit == InitWith(LimitSounds)

LimitSources ==
    {<<SOURCE_Actor, 2, NoPoint>>, <<SOURCE_Unattached, NULLP, NearPoint>>,
     <<SOURCE_Unattached, NULLP, FarPoint>>, <<SOURCE_Actor, ListenerObject, NoPoint>>}

LimitChannels == {CHAN_AUTO, 1}

NextLimit ==
    \/ \E s \in LimitSources, channel \in LimitChannels :
          DoStartSound(s[1], s[2], s[3], channel, 1, 100, 1, TRUE, MaxLimitChans)
    \/ \E c \in DOMAIN chan : DoStopChannel(c)

SpecLimit == InitLimit /\ [][NextLimit]_vars

-----------------------------------------------------------------------------
(* SpecAuto: nothing but starts on slot AUTO; no sound ends, none is        *)
(* limited.                                                                 *)

InitAuto == InitWith(AutoSounds)

AutoSources ==
    {<<SOURCE_Actor, 2, NoPoint>>, <<SOURCE_Actor, ListenerObject, NoPoint>>,
     <<SOURCE_Unattached, NULLP, FarPoint>>}

NextAuto ==
    \E s \in AutoSources, accept \in BOOLEAN :
        DoStartSound(s[1], s[2], s[3], CHAN_AUTO, 1, 100, 1, accept, MaxAutoChans)

SpecAuto == InitAuto /\ [][NextAuto]_vars

-----------------------------------------------------------------------------
(* SpecFence: the restart fence.  The client sets it, evicts and updates.   *)

InitFence == InitWith(Sounds)

NextFence ==
    \/ \E channel \in {CHAN_AUTO, CHAN_LOOP}, accept \in BOOLEAN :
          DoStartSound(SOURCE_Actor, 2, NoPoint, channel, 1, 100, 1, accept, MaxChans)
    \/ \E pos \in 0..MaxPos : DoEvictAllChannels(pos)
    \/ \E time \in 0..MaxTime : DoSetRestartTime(time)
    \/ \E time \in 0..MaxTime, acc \in Answers(MaxChans) : DoUpdateSounds(time, acc)

SpecFence == InitFence /\ [][NextFence]_vars

-----------------------------------------------------------------------------
(* SpecBlocked: one actor starts a singular sound (1) and a sound limited   *)
(* to one copy nearby (2) on slot AUTO, looping or not, and the backend     *)
(* may refuse.  Nothing ends, so the actor runs out of slots.               *)

BlockSounds ==
    <<[NewSfx(1, 0) EXCEPT !.bSingular = TRUE, !.NearLimit = 0],
      [NewSfx(2, 0) EXCEPT !.NearLimit = 1, !.LimitRange = 16]>>

InitBlocked == InitWith(BlockSounds)

BlockChannels == {CHAN_AUTO, CHAN_LOOP}

\* The starts: <<sound, the backend's answer>>.  The backend refuses the
\* singular sound only.
BlockStarts == {<<1, TRUE>>, <<1, FALSE>>, <<2, TRUE>>}

NextBlocked ==
    \E channel \in BlockChannels, s \in BlockStarts :
        DoStartSound(SOURCE_Actor, 2, NoPoint, channel, s[1], 100, 1, s[2],
                     MaxAutoChans)

SpecBlocked == InitBlocked /\ [][NextBlocked]_vars

-----------------------------------------------------------------------------
(* SpecRandom: random sounds.  Sound 3 picks between the sounds 1 and 2,    *)
(* sound 4 between sound 3 and sound 2.  An actor and the unpositioned      *)
(* source start them.                                                       *)

RandomSounds ==
    <<[NewSfx(1, 0) EXCEPT !.NearLimit = 5], NewSfx(2, 0),
      NewSfx(NO_LUMP, 0), NewSfx(NO_LUMP, 0)>>

RandomRegistry ==
    AddRandomSound(
        AddRandomSound([S_sfx |-> Cached(SfxTable(RandomSounds)), S_rnd |-> <<>>],
                       3, <<1, 2>>),
        4, <<3, 2>>)

InitRandom ==
    /\ chan = <<>>
    /\ Channels = NULLP
    /\ FreeChannels = NULLP
    /\ S_sfx = RandomRegistry.S_sfx
    /\ S_rnd = RandomRegistry.S_rnd
    /\ RestartEvictionsAt = 0
    /\ SoundPaused = FALSE
    /\ last = [op |-> "new", ret |-> NULLP, accepted |-> {}]
    /\ res = NoLoop
    /\ arc = NoArc
    /\ app = NoApp

\* What rand() returns during one StartSound.
RandDraws == [1..4 -> 0..MaxRand]

RandomSources == {<<SOURCE_Actor, 2>>, <<SOURCE_None, NULLP>>}

NextRandom ==
    \/ \E s \in RandomSources, id \in {3, 4}, draws \in RandDraws :
          DoStartSoundDrawn(s[1], s[2], CHAN_AUTO, id, draws, TRUE, MaxChans)
    \/ \E c \in DOMAIN chan : DoStopChannel(c)

SpecRandom == InitRandom /\ [][NextRandom]_vars

-----------------------------------------------------------------------------
(* SpecLinks: the link resolution loop at the start of StartSound, one      *)
(* iteration per step, over every registry of MaxSounds sounds whose links  *)
(* are drawn freely (aliases of aliases, of themselves, in a circle) and    *)
(* over the registry of random sounds.  The loop is sequential code: it     *)
(* keeps running while it can.                                              *)

\* The registry in which sound i is an alias of f[i], or no alias at all.
LinkTable(f) ==
    [i \in 0..MaxSounds |->
        IF i = 0 THEN NewSfx(sfx_empty, 0) ELSE [NewSfx(i, 0) EXCEPT !.link = f[i]]]

InitLinks ==
    /\ chan = <<>>
    /\ Channels = NULLP
    /\ FreeChannels = NULLP
    /\ \/ \E f \in [1..MaxSounds -> {NO_LINK} \cup 1..MaxSounds] :
             S_sfx = LinkTable(f) /\ S_rnd = <<>>
       \/ S_sfx = RandomRegistry.S_sfx /\ S_rnd = RandomRegistry.S_rnd
    /\ RestartEvictionsAt = 0
    /\ SoundPaused = FALSE
    /\ last = [op |-> "new", ret |-> NULLP, accepted |-> {}]
    /\ \E sound_id \in DOMAIN S_sfx \ {0} :
          res = [pc |-> "loop", r |-> LinkStart(Engine, sound_id, 1, NoDraws),
                 refid |-> 0, iter |-> 0]
    /\ arc = NoArc
    /\ app = NoApp

\* while (sfx->link != NO_LINK): the test and, for an alias, the body; a
\* random header goes to PickReplacement.  iter is the number of iterations
\* made, modulo 2.
LinkIter ==
    /\ res.pc = "loop"
    /\ res' = IF S_sfx[res.r.sound_id].link = NO_LINK
              THEN [res EXCEPT !.pc = "done"]
              ELSE IF S_sfx[res.r.sound_id].bRandomHeader
              THEN [res EXCEPT !.pc = "pick", !.refid = res.r.sound_id]
              ELSE [res EXCEPT !.r = LinkStep(Engine, res.r,
                                        <<S_sfx[res.r.sound_id].link, res.r.draws>>),
                               !.iter = (@ + 1) % 2]
    /\ UNCHANGED <<chan, Channels, FreeChannels, S_sfx, S_rnd,
                   RestartEvictionsAt, SoundPaused, last, arc, app>>

\* while (S_sfx[refid].bRandomHeader) in PickReplacement: the test and the
\* body, rand() returning rnd; after the loop the rest of the body of the
\* link loop.
PickIter(rnd) ==
    /\ res.pc = "pick"
    /\ res' = IF S_sfx[res.refid].bRandomHeader
              THEN [res EXCEPT !.refid =
                       S_rnd[S_sfx[res.refid].link].Choices[
                           (rnd % Len(S_rnd[S_sfx[res.refid].link].Choices)) + 1]]
              ELSE [res EXCEPT !.pc = "loop",
                               !.r = LinkStep(Engine, res.r, <<res.refid, res.r.draws>>),
                               !.iter = (@ + 1) % 2]
    /\ UNCHANGED <<chan, Channels, FreeChannels, S_sfx, S_rnd,
                   RestartEvictionsAt, SoundPaused, last, arc, app>>

NextLinks ==
    \/ LinkIter
    \/ \E rnd \in 0..MaxRand : PickIter(rnd)

SpecLinks == InitLinks /\ [][NextLinks]_vars /\ WF_vars(NextLinks)

-----------------------------------------------------------------------------
(* SpecParked: looping sounds parked because they were blocked.  The        *)
(* backend has a voice for every start, so StartSound parks a sound only    *)
(* when the singular check (sound 1) or the near limit (sound 2) blocks it. *)
(* Channels are stopped, and UpdateSounds retries the parked ones.          *)

InitParked == InitWith(BlockSounds)

NextParked ==
    \/ \E channel \in StartChannels, id \in {1, 2} :
          DoStartSound(SOURCE_Actor, 2, NoPoint, channel, id, 100, 1, TRUE, MaxChans)
    \/ \E c \in DOMAIN chan : DoStopChannel(c)
    \/ \E acc \in Answers(MaxChans) : DoUpdateSounds(0, acc)

SpecParked == InitParked /\ [][NextParked]_vars

-----------------------------------------------------------------------------
(* SpecSlot: two actors start sounds on the explicit slots 1 and 2, looping *)
(* or not, and the sounds of actor 1 are moved to actor 2.                  *)

InitSlot == InitWith(AutoSounds)

SlotChannels == {1, 2, 1 + CHAN_LOOP}

NextSlot ==
    \/ \E a \in Actors, channel \in SlotChannels, accept \in BOOLEAN :
          DoStartSound(SOURCE_Actor, a, NoPoint, channel, 1, 100, 1, accept,
                       MaxChans)
    \/ DoRelinkSound(SOURCE_Actor, 1, 2, NoPoint)

SpecSlot == InitSlot /\ [][NextSlot]_vars

-----------------------------------------------------------------------------
(* SpecStop: unpositioned sounds and the sounds of an actor on the slots 1  *)
(* and 2, and StopSound(channel).                                           *)

InitStop == InitWith(AutoSounds)

StopSources == {<<SOURCE_None, NULLP>>, <<SOURCE_Actor, 2>>}

StopChannels == {1, 2}

NextStop ==
    \/ \E s \in StopSources, channel \in StopChannels, accept \in BOOLEAN :
          DoStartSound(s[1], s[2], NoPoint, channel + CHAN_LOOP, 1, 100, 1, accept,
                       MaxLimitChans)
    \/ \E channel \in StopChannels : DoStopSound(channel)

SpecStop == InitStop /\ [][NextStop]_vars

-----------------------------------------------------------------------------
(* Properties *)

Active == Range(ActiveOf(Engine))
Free == Range(FreeOf(Engine))

Playing(c) == chan[c].SysChannel # NULLP
Evicted(c) == CHAN_EVICTED \in chan[c].ChanFlags
Looping(c) == CHAN_LOOP \in chan[c].ChanFlags

\* C1: every allocated channel is linked into exactly one of the Active list
\* and the Free list, never both, never neither, and into it once.
C1_ExactlyOneList ==
    /\ \A c \in DOMAIN chan : (c \in Active) # (c \in Free)
    /\ Len(ActiveOf(Engine)) + Len(FreeOf(Engine)) = Cardinality(DOMAIN chan)

C1_Witness == Active # {} /\ Free # {}

\* C2: a channel with a voice (SysChannel non-null) is in the Active list and
\* not evicted; an evicted channel and a free channel have no voice.
C2_VoiceOnlyWhilePlaying ==
    \A c \in DOMAIN chan :
        /\ Playing(c) => c \in Active /\ ~Evicted(c)
        /\ Evicted(c) \/ c \in Free => chan[c].SysChannel = NULLP

C2_Witness == \E c, d \in Active : Playing(c) /\ Evicted(d)

\* The channels that play sound s or wait for a voice to play it, and those
\* among them that are not parked.
Carrying(s) == {c \in Active : chan[c].SoundID = s}
Audible(s) == {c \in Carrying(s) : ~Evicted(c)}

\* C3: at most one channel of the Active list carries the SoundID of a
\* singular sound.  The channels StartSound parks with CHAN_EVICTED for a
\* looping sound are not counted: the property is about the copies that play.
C3_Singular ==
    \A s \in DOMAIN S_sfx : S_sfx[s].bSingular => Cardinality(Audible(s)) <= 1

\* Where the sound of channel c comes from.
Origin(c) == CalcPosVelChan(chan[c])

\* The copies of sound s that play within the sound's range of pos.
Near(s, pos) ==
    {c \in Audible(s) : LengthSquared(Origin(c), pos) <= S_sfx[s].LimitRange}

Limited(s) == s[1] # SOURCE_None /\ s[2] # ListenerObject

\* The actor s already plays sound id on the slot the call names.
Restarts(s, channel, id) ==
    /\ s[1] = SOURCE_Actor
    /\ \E c \in Audible(id) :
          /\ chan[c].SourceType = SOURCE_Actor
          /\ chan[c].Source = s[2]
          /\ chan[c].EntChannel = channel % 8

Tuple(c) == <<chan[c].SourceType, chan[c].Source, chan[c].EntChannel>>

\* C5 as stated: no two channels of the Active list have the same
\* (source type, source, slot).
C5_AutoTuples == \A c, d \in Active : c # d => Tuple(c) # Tuple(d)

\* C5, amended: no two channels of the Active list that belong to a source
\* object (Source non-null) have the same (source type, source, slot).
C5_AutoTuplesOfObjects ==
    \A c, d \in Active : c # d /\ chan[c].Source # NULLP => Tuple(c) # Tuple(d)

C5_Witness ==
    \E c, d \in Active :
        /\ c # d
        /\ chan[c].Source # NULLP
        /\ chan[c].Source = chan[d].Source
        /\ chan[c].SourceType = chan[d].SourceType

\* The channels actor a holds.
HeldBy(a) ==
    {c \in Active : chan[c].SourceType = SOURCE_Actor /\ chan[c].Source = a}

\* The slots in the order StartSound hands them out.
AutoOrder == <<0, 7, 6, 5, 4, 3, 2, 1>>

\* A start on slot AUTO by actor 2, who holds the channels of its earlier
\* starts, gets the next slot of order when the backend accepts it, and
\* null once the slots of order are used up.
AutoFollows(order) ==
    \A accept \in BOOLEAN :
        DoStartSound(SOURCE_Actor, 2, NoPoint, CHAN_AUTO, 1, 100, 1, accept,
                     MaxAutoChans)
        => IF Cardinality(HeldBy(2)) >= Len(order) THEN last'.ret = NULLP
           ELSE accept => /\ last'.ret # NULLP
                          /\ chan'[last'.ret].EntChannel
                                 = order[Cardinality(HeldBy(2)) + 1]

\* C6 as stated: the slots are 0, 7, 6, 5, 4, 3, 2 and the eighth call
\* returns null.
C6_SevenSlots == [][AutoFollows(SubSeq(AutoOrder, 1, 7))]_vars

\* C6, amended: the slots are 0, 7, 6, 5, 4, 3, 2, 1 and the ninth call
\* returns null.
C6_EightSlots == [][AutoFollows(AutoOrder)]_vars

C6_Witness ==
    /\ last.op = "StartSound"
    /\ last.ret = NULLP
    /\ Cardinality(HeldBy(2)) = 8

\* Channel c is in the Active list after the step with the sound it had.
KeepsSound(c) ==
    /\ c \in Active'
    /\ chan'[c].SoundID = chan[c].SoundID
    /\ chan'[c].OrgID = chan[c].OrgID
    /\ chan'[c].EntChannel = chan[c].EntChannel
    /\ chan'[c].Volume = chan[c].Volume

\* After the step, the looping channels the backend gave a voice play again.
LoopsRestored ==
    \A c \in Active :
        Looping(c) /\ c \in last'.accepted
            => /\ KeepsSound(c)
               /\ chan'[c].SysChannel # NULLP
               /\ CHAN_EVICTED \notin chan'[c].ChanFlags

\* C7: after EvictAllChannels followed by RestoreEvictedChannels (two calls
\* in a row, or the two in Reset), every channel that was looping and was
\* given a voice by the backend plays again, not evicted, with the SoundID,
\* OrgID, EntChannel and Volume it had.
C7_EvictRestore ==
    [][/\ last'.op = "Reset" => LoopsRestored
       /\ last.op = "EvictAllChannels" /\ last'.op = "RestoreEvictedChannels"
              => LoopsRestored]_vars

C7_Witness ==
    /\ last.op = "Reset"
    /\ \E c \in Active \cap last.accepted : Looping(c) /\ Playing(c)

\* C8: when RestoreEvictedChannels returns, no channel of the Active list
\* that does not loop is evicted: each one that was has a voice again or is
\* in the Free list.
C8_NoOneShotParked ==
    [][last'.op = "RestoreEvictedChannels"
          => /\ \A c \in Active' :
                   CHAN_EVICTED \in chan'[c].ChanFlags
                       => CHAN_LOOP \in chan'[c].ChanFlags
             /\ \A c \in Active :
                   Evicted(c) /\ ~Looping(c)
                       => \/ c \in Free'
                          \/ /\ c \in Active'
                             /\ chan'[c].SysChannel # NULLP
                             /\ CHAN_EVICTED \notin chan'[c].ChanFlags]_vars

C8_Witness ==
    /\ last.op = "RestoreEvictedChannels"
    /\ Free # {}
    /\ \E c \in Active \cap last.accepted : ~Looping(c) /\ Playing(c)

\* C9: when EvictAllChannels returns no channel has a voice, and every
\* channel that had one and was not forgettable is still in the Active list,
\* evicted, with its SoundID, OrgID, EntChannel, Volume and source.
C9_EvictAll ==
    [][last'.op = "EvictAllChannels"
          => /\ \A c \in Active' : chan'[c].SysChannel = NULLP
             /\ \A c \in Active :
                   Playing(c) /\ CHAN_FORGETTABLE \notin chan[c].ChanFlags
                       => /\ KeepsSound(c)
                          /\ CHAN_EVICTED \in chan'[c].ChanFlags
                          /\ chan'[c].SourceType = chan[c].SourceType
                          /\ chan'[c].Source = chan[c].Source
                          /\ chan'[c].Point = chan[c].Point]_vars

C9_Witness ==
    /\ last.op = "EvictAllChannels"
    /\ \E c \in Active :
          Evicted(c) /\ ~Looping(c) /\ CHAN_ABSTIME \in chan[c].ChanFlags

\* C10: UpdateSounds(time) with time below RestartEvictionsAt leaves the
\* fence and every evicted channel as they are and asks the backend for
\* nothing; with time at or above it the fence becomes 0, every evicted
\* looping channel the backend gives a voice is no longer evicted, and no
\* evicted channel that does not loop stays in the Active list.
C10_Fence ==
    [][\A time \in 0..MaxTime, acc \in Answers(MaxChans) :
          DoUpdateSounds(time, acc)
          => IF time < RestartEvictionsAt
             THEN /\ RestartEvictionsAt' = RestartEvictionsAt
                  /\ Active' = Active
                  /\ last'.accepted = {}
                  /\ \A c \in Active :
                        Evicted(c) => /\ CHAN_EVICTED \in chan'[c].ChanFlags
                                      /\ chan'[c].SysChannel = NULLP
             ELSE /\ RestartEvictionsAt' = 0
                  /\ \A c \in Active :
                        Evicted(c) /\ Looping(c) /\ c \in last'.accepted
                            => /\ c \in Active'
                               /\ CHAN_EVICTED \notin chan'[c].ChanFlags
                  /\ \A c \in Active' :
                        CHAN_EVICTED \in chan'[c].ChanFlags
                            => CHAN_LOOP \in chan'[c].ChanFlags]_vars

C10_Witness ==
    /\ last.op = "UpdateSounds"
    /\ RestartEvictionsAt > 0
    /\ \E c \in Active : Evicted(c) /\ ~Looping(c)

\* The start of sound id by actor 2 is blocked by the singular check or by
\* the near limit, in the state before the call.
SingularBlocks(id) == S_sfx[id].bSingular /\ \E c \in Active : chan[c].OrgID = id

LimitBlocks(id, channel) ==
    /\ S_sfx[id].NearLimit > 0
    /\ Cardinality(Near(id, ActorPos(2))) >= S_sfx[id].NearLimit
    /\ ~Restarts(<<SOURCE_Actor, 2, NoPoint>>, channel, id)

\* Actor 2 has a channel on every one of the slots 0..7.
NoSlotLeft == \A k \in 0..7 : \E c \in HeldBy(2) : chan[c].EntChannel = k

\* The channel the call returned is parked.
Parked(c) ==
    /\ c \in Active
    /\ CHAN_EVICTED \in chan[c].ChanFlags
    /\ chan[c].SysChannel = NULLP

\* A start that is blocked or refused: without CHAN_LOOP it returns null and
\* allocates nothing; with CHAN_LOOP it returns a parked channel, except
\* that it returns null when exhausted holds.
BlockedStart(exhausted) ==
    \A channel \in BlockChannels, s \in BlockStarts :
        /\ DoStartSound(SOURCE_Actor, 2, NoPoint, channel, s[1], 100, 1, s[2],
                        MaxAutoChans)
        /\ SingularBlocks(s[1]) \/ LimitBlocks(s[1], channel) \/ ~s[2]
        => IF channel = CHAN_AUTO
           THEN /\ last'.ret = NULLP
                /\ DOMAIN chan' = DOMAIN chan
                /\ Active' = Active
           ELSE IF exhausted THEN last'.ret = NULLP
           ELSE /\ last'.ret # NULLP
                /\ last'.ret \in Active'
                /\ CHAN_EVICTED \in chan'[last'.ret].ChanFlags
                /\ chan'[last'.ret].SysChannel = NULLP

\* C11 as stated: a start that the singular check or the near limit blocks
\* or the backend refuses returns null and allocates no channel without
\* CHAN_LOOP, and returns a parked channel (Active, evicted, no voice) with
\* CHAN_LOOP.
C11_BlockedStart == [][BlockedStart(FALSE)]_vars

\* C11, amended: the same, except that a looping start on slot AUTO returns
\* null when the source already has a channel on every slot 0..7.
C11_BlockedStartWithSlot == [][BlockedStart(NoSlotLeft)]_vars

C11_Witness ==
    /\ last.op = "StartSound"
    /\ last.ret # NULLP
    /\ Parked(last.ret)
    /\ chan[last.ret].SoundID = 2
    /\ \E c \in Active : Parked(c) /\ chan[c].SoundID = 1


\* The sounds a start of sound id can end in.
RECURSIVE Leaves(_)
Leaves(id) ==
    IF S_sfx[id].bRandomHeader
    THEN UNION {Leaves(S_rnd[S_sfx[id].link].Choices[i]) :
                   i \in 1..Len(S_rnd[S_sfx[id].link].Choices)}
    ELSE {id}

\* A start of a random header that returns a channel: the channel has the
\* header as OrgID, one of its choices as SoundID, and the near limit
\* limit(source, SoundID).
RandomStart(limit(_, _)) ==
    \A s \in RandomSources, id \in {3, 4}, draws \in RandDraws :
        /\ DoStartSoundDrawn(s[1], s[2], CHAN_AUTO, id, draws, TRUE, MaxChans)
        /\ last'.ret # NULLP
        => /\ chan'[last'.ret].OrgID = id
           /\ chan'[last'.ret].SoundID \in Leaves(id)
           /\ ~S_sfx[chan'[last'.ret].SoundID].bRandomHeader
           /\ chan'[last'.ret].NearLimit = limit(s, chan'[last'.ret].SoundID)

ChosenLimit(s, id) == S_sfx[id].NearLimit

ChosenLimitOfSource(s, id) ==
    IF s[1] = SOURCE_None \/ s[2] = ListenerObject THEN 0 ELSE S_sfx[id].NearLimit

\* C12 as stated: the channel a start of a random header returns has the
\* header as OrgID, a SoundID that is one of the header's choices and no
\* random header, and the NearLimit of the chosen sound.
C12_RandomStart == [][RandomStart(ChosenLimit)]_vars

\* C12, amended: the same, with NearLimit 0 when the source is unpositioned
\* (SOURCE_None) or the listener.
C12_RandomStartOfSource == [][RandomStart(ChosenLimitOfSource)]_vars

C12_Witness ==
    \E c, d \in Active :
        /\ chan[c].OrgID = 4 /\ chan[c].SoundID = 1 /\ chan[c].NearLimit = 5
        /\ chan[d].OrgID = 3 /\ chan[d].SoundID = 2 /\ chan[d].NearLimit = 2


\* C13: the link resolution loop at the start of StartSound ends, whatever
\* the registry holds: a chain of links that is too long or goes in a circle
\* is given up as a data error.
C13_LinksTerminate == <>(res.pc = "done")


\* Nothing blocks the parked channel c: no other channel of the Active list
\* has its sound, and fewer copies than its near limit play within range.
Unblocked(c) ==
    /\ \A d \in Active \ {c} :
          chan[d].SoundID # chan[c].SoundID /\ chan[d].OrgID # chan[c].SoundID
    /\ chan[c].NearLimit > 0
          => Cardinality(Near(chan[c].SoundID, Origin(c))) < chan[c].NearLimit

\* C14: a looping sound that StartSound parked because the singular check
\* or the near limit blocked it plays once nothing blocks it any more: an
\* UpdateSounds at or after RestartEvictionsAt, the backend giving a voice
\* to every restart, leaves it in the Active list with a voice and without
\* CHAN_EVICTED.
C14_ParkedRestarts ==
    [][\A acc \in Answers(MaxChans) :
          /\ DoUpdateSounds(0, acc)
          /\ \A i \in 1..MaxChans : acc[i]
          => \A c \in Active :
                Evicted(c) /\ Looping(c) /\ Unblocked(c)
                    => /\ c \in Active'
                       /\ chan'[c].SysChannel # NULLP
                       /\ CHAN_EVICTED \notin chan'[c].ChanFlags]_vars


\* The channels of the Active list on slot k of actor a, before and after
\* the step.
OnSlot(a, k) == {c \in Active : Tuple(c) = <<SOURCE_Actor, a, k>>}

OnSlotAfter(a, k) ==
    {c \in Active' : /\ chan'[c].SourceType = SOURCE_Actor
                     /\ chan'[c].Source = a
                     /\ chan'[c].EntChannel = k}

\* A start on an explicit slot that returns a channel leaves n(a, k)
\* channels on the slot, the one returned among them.
SlotStart(n(_, _)) ==
    \A a \in Actors, channel \in SlotChannels, accept \in BOOLEAN :
        /\ DoStartSound(SOURCE_Actor, a, NoPoint, channel, 1, 100, 1, accept,
                        MaxChans)
        /\ last'.ret # NULLP
        => /\ last'.ret \in OnSlotAfter(a, channel % 8)
           /\ Cardinality(OnSlotAfter(a, channel % 8)) = n(a, channel % 8)

One(a, k) == 1

OneStopped(a, k) == IF OnSlot(a, k) = {} THEN 1 ELSE Cardinality(OnSlot(a, k))

\* C15 as stated: the channel a start on an explicit slot k returns is the
\* only channel of the Active list with (source type, source, k).
C15_OnlyOneOnSlot == [][SlotStart(One)]_vars

\* C15, amended: the start stops one channel that was on (source type,
\* source, k), so the channel returned is the only one there when at most
\* one was there before; channels that RelinkSound moved onto the same slot
\* of the source stay, all but one.
C15_OneStoppedOnSlot == [][SlotStart(OneStopped)]_vars

C15_Witness ==
    /\ last.op = "StartSound"
    /\ last.ret = 1
    /\ Active = {1, 2}
    /\ Tuple(1) = <<SOURCE_Actor, 2, 1>>
    /\ Tuple(2) = <<SOURCE_Actor, 2, 2>>


\* Channel c is the same after the step, its place in the list aside.
Untouched(c) ==
    /\ c \in Active'
    /\ [chan'[c] EXCEPT !.NextChan = NULLP, !.PrevChan = NULLP]
           = [chan[c] EXCEPT !.NextChan = NULLP, !.PrevChan = NULLP]

\* C16: StopSound(channel) stops the unpositioned (SOURCE_None) sounds on
\* slot channel and leaves every other channel as it is: unpositioned
\* sounds on other slots and all positioned sounds.
C16_StopSoundOnChannel ==
    [][\A channel \in StopChannels :
          DoStopSound(channel)
          => \A c \in Active :
                IF chan[c].SourceType = SOURCE_None /\ chan[c].EntChannel = channel
                THEN c \in Free'
                ELSE Untouched(c)]_vars

-----------------------------------------------------------------------------
(***************************************************************************)
(* The serializer of src/serializer.cpp.                                   *)
(*                                                                         *)
(* A JSON value is a record [t, v]: t is the type, v the boolean, the      *)
(* integer, the string (a sequence of bytes), the members of an object (a  *)
(* sequence of [k, x], in the order written) or the elements of an array.  *)
(* A nullable pointer (FWriter *w, a bool *defval, the Value* FindKey      *)
(* returns) is a sequence of at most one element, <<>> being nullptr.      *)
(* A function that takes a reference and may throw returns a record of     *)
(* what it leaves: the serializer, the referenced value, thrown.           *)
(* A char* is the sequence of the bytes of its buffer.                     *)
(***************************************************************************)

\* A char* is the sequence of the bytes of its buffer; a terminating 0
\* follows the buffer.  What a reader of the C string sees ends before the
\* first 0.
RECURSIVE CStr(_)
CStr(cc) ==
    IF cc = <<>> \/ Head(cc) = 0 THEN <<>> ELSE <<Head(cc)>> \o CStr(Tail(cc))

\* utf8_encode(codepoint, buffer, &size) for a code point below 0x800: the
\* bytes written.
utf8_encode(ch) ==
    IF ch < 128 THEN <<ch>> ELSE <<192 + (ch \div 64), 128 + (ch % 64)>>

\* utf8_decode(src, &size) for sequences of one and two bytes: the code
\* point (-1 for a malformed sequence) and the bytes consumed.
utf8_decode(cc) ==
    IF cc[1] < 128 THEN [c |-> cc[1], size |-> 1]
    ELSE IF cc[1] \in 192..223 /\ Len(cc) > 1 /\ cc[2] \in 128..191
    THEN [c |-> (cc[1] % 32) * 64 + (cc[2] % 64), size |-> 2]
    ELSE [c |-> -1, size |-> 1]

\* The first loop of StringToUnicode with size = -1: count1 is the number
\* of bytes before the first 0, count the number of bytes they encode to.
RECURSIVE CountBytes(_, _)
CountBytes(cc, n) ==
    IF cc = <<>> \/ Head(cc) % 256 = 0 THEN n
    ELSE CountBytes(Tail(cc), [count1 |-> n.count1 + 1,
                               count |-> n.count + IF Head(cc) >= 128 THEN 2 ELSE 1])

\* The second loop of StringToUnicode.
RECURSIVE EncodeBytes(_)
EncodeBytes(cc) ==
    IF cc = <<>> \/ Head(cc) = 0 THEN <<>>
    ELSE utf8_encode(Head(cc)) \o EncodeBytes(Tail(cc))

\* StringToUnicode(cc) (size = -1): cc itself when it is pure ASCII, else
\* the buffer out.
StringToUnicode(cc) ==
    LET n == CountBytes(cc, [count1 |-> 0, count |-> 0]) IN
    IF n.count = n.count1 THEN cc ELSE EncodeBytes(cc)

\* UnicodeToString(cc) that copies the bytes as they are.
UnicodeToString_Raw(cc) == CStr(cc)

\* UnicodeToString(cc): the buffer out up to its terminating 0.
RECURSIVE UnicodeToString(_)
UnicodeToString(cc) ==
    IF cc = <<>> \/ Head(cc) = 0 THEN <<>>
    ELSE LET d == utf8_decode(cc)
             c == IF d.c < 0 \/ d.c > 255 THEN 63 ELSE d.c
         IN  <<c>> \o UnicodeToString(SubSeq(cc, d.size + 1, Len(cc)))

JBool(b) == [t |-> "Bool", v |-> b]
JInt(i) == [t |-> "Int", v |-> i]
JString(s) == [t |-> "String", v |-> s]
JNull == [t |-> "Null", v |-> 0]
JObject(m) == [t |-> "Object", v |-> m]
JArray(a) == [t |-> "Array", v |-> a]

\* The last element of a stack and the stack without it.
Last(s) == s[Len(s)]
Pop(s) == SubSeq(s, 1, Len(s) - 1)

\* FWriter after construction.  open is the stack of the containers the
\* JSON writer has started and not ended, each with the key written last;
\* mOutString holds the root value once it is complete.
NewWriter ==
    [mInObject |-> <<>>, open |-> <<>>, mOutString |-> <<>>,
     mDObjects |-> <<>>, mObjectMap |-> <<>>]

inObject(w) == Len(w.mInObject) > 0 /\ Last(w.mInObject)

\* The JSON writer receives a complete value: it becomes a member of the
\* open object under the key written last, an element of the open array, or
\* the root.
Emit(w, x) ==
    IF w.open = <<>>
    THEN [w EXCEPT !.mOutString = <<x>>]
    ELSE IF Last(w.open).t = "Object"
    THEN [w EXCEPT !.open[Len(w.open)] =
             [@ EXCEPT !.v = Append(@, [k |-> Last(w.open).key, x |-> x]),
                       !.key = <<>>]]
    ELSE [w EXCEPT !.open[Len(w.open)] = [@ EXCEPT !.v = Append(@, x)]]

w_Key(w, key) == [w EXCEPT !.open[Len(w.open)] = [@ EXCEPT !.key = <<key>>]]
w_Bool(w, k) == Emit(w, JBool(k))
w_Int(w, k) == Emit(w, JInt(k))
w_String(w, k) == Emit(w, JString(StringToUnicode(k)))
w_Null(w) == Emit(w, JNull)
w_StartObject(w) ==
    [w EXCEPT !.open = Append(@, [t |-> "Object", v |-> <<>>, key |-> <<>>])]
w_StartArray(w) ==
    [w EXCEPT !.open = Append(@, [t |-> "Array", v |-> <<>>, key |-> <<>>])]
w_EndObject(w) == Emit([w EXCEPT !.open = Pop(@)], JObject(Last(w.open).v))
w_EndArray(w) == Emit([w EXCEPT !.open = Pop(@)], JArray(Last(w.open).v))

\* FReader(buffer, length): the parsed document is the first open object.
NewReader(doc) ==
    [mObjects |-> <<[mObject |-> doc, mIndex |-> 0]>>, mDoc |-> doc,
     mDObjects |-> <<>>, mObjectsRead |-> FALSE]

\* The value of the first member of object m named key, or nullptr.
RECURSIVE FindMember(_, _)
FindMember(m, key) ==
    IF m = <<>> THEN <<>>
    ELSE IF Head(m).k = <<key>> THEN <<Head(m).x>>
    ELSE FindMember(Tail(m), key)

\* FindKey that returns the element of an array without moving on.
FindKey_Stays(r, key) ==
    LET obj == Last(r.mObjects) IN
    IF obj.mObject.t = "Object"
    THEN [val |-> FindMember(obj.mObject.v, key), r |-> r]
    ELSE IF obj.mObject.t = "Array" /\ obj.mIndex < Len(obj.mObject.v)
    THEN [val |-> <<obj.mObject.v[obj.mIndex + 1]>>, r |-> r]
    ELSE [val |-> <<>>, r |-> r]

\* FReader::FindKey with a key that is not null: the value found (or
\* nullptr) and the reader, whose array index has moved on.
FindKey(r, key) ==
    LET obj == Last(r.mObjects) IN
    IF obj.mObject.t = "Object"
    THEN [val |-> FindMember(obj.mObject.v, key), r |-> r]
    ELSE IF obj.mObject.t = "Array" /\ obj.mIndex < Len(obj.mObject.v)
    THEN [val |-> <<obj.mObject.v[obj.mIndex + 1]>>,
          r |-> [r EXCEPT !.mObjects[Len(r.mObjects)].mIndex = @ + 1]]
    ELSE [val |-> <<>>, r |-> r]

isWriting(a) == a.w # <<>>
isReading(a) == a.r # <<>>

\* FSerializer::WriteKey with a key that is not null.
WriteKey(a, key) ==
    IF isWriting(a) /\ inObject(a.w[1])
    THEN [a EXCEPT !.w[1] = w_Key(@, key)]
    ELSE a

\* FSerializer::BeginObject(nullptr) and BeginObject(name) of a writer.
BeginObjectW(a, name) ==
    LET k == IF name = <<>> THEN a ELSE WriteKey(a, name[1])
    IN  [k EXCEPT !.w[1] = [w_StartObject(@) EXCEPT !.mInObject = Append(@, TRUE)]]

\* FSerializer::EndObject of a writer: thrown when no object is open.
EndObjectW(a) ==
    IF inObject(a.w[1])
    THEN [arc |-> [a EXCEPT !.w[1] = [w_EndObject(@) EXCEPT !.mInObject = Pop(@)]],
          thrown |-> FALSE]
    ELSE [arc |-> a, thrown |-> TRUE]

OpenWriter(a) ==
    IF a.w # <<>> \/ a.r # <<>>
    THEN [arc |-> a, ret |-> FALSE]
    ELSE [arc |-> BeginObjectW([a EXCEPT !.mErrors = 0, !.w = <<NewWriter>>], <<>>),
          ret |-> TRUE]

OpenReader(a, doc) ==
    IF a.w # <<>> \/ a.r # <<>>
    THEN [arc |-> a, ret |-> FALSE]
    ELSE [arc |-> [a EXCEPT !.mErrors = 0, !.r = <<NewReader(doc)>>], ret |-> TRUE]

\* FSerializer::Close that raises nothing.
Close_Quiet(a) == [arc |-> [a EXCEPT !.w = <<>>, !.r = <<>>], thrown |-> FALSE]

\* FSerializer::Close: thrown when errors were counted.
Close(a) ==
    IF a.w = <<>> /\ a.r = <<>>
    THEN [arc |-> a, thrown |-> FALSE]
    ELSE [arc |-> [a EXCEPT !.w = <<>>, !.r = <<>>], thrown |-> a.mErrors > 0]

\* Serialize(arc, key, bool &value, bool *defval), written always.
Serialize_bool_Always(a, key, value, defval) ==
    [arc |-> IF isWriting(a)
             THEN [WriteKey(a, key) EXCEPT !.w[1] = w_Bool(@, value)]
             ELSE a,
     value |-> value]

\* Serialize(arc, key, bool &value, bool *defval)
Serialize_bool(a, key, value, defval) ==
    IF isWriting(a)
    THEN [arc |-> IF ~inObject(a.w[1]) \/ defval = <<>> \/ value # defval[1]
                  THEN [WriteKey(a, key) EXCEPT !.w[1] = w_Bool(@, value)]
                  ELSE a,
          value |-> value]
    ELSE LET f == FindKey(a.r[1], key) IN
         IF f.val # <<>>
         THEN IF f.val[1].t = "Bool"
              THEN [arc |-> [a EXCEPT !.r[1] = f.r], value |-> f.val[1].v]
              ELSE [arc |-> [a EXCEPT !.r[1] = f.r, !.mErrors = @ + 1],
                    value |-> value]
         ELSE [arc |-> [a EXCEPT !.r[1] = f.r], value |-> value]

\* Serialize for int32_t that tests the default inside an array too.
Serialize_int32_SkipsInArray(a, key, value, defval) ==
    IF isWriting(a)
    THEN [arc |-> IF defval = <<>> \/ value # defval[1]
                  THEN [WriteKey(a, key) EXCEPT !.w[1] = w_Int(@, value)]
                  ELSE a,
          value |-> value]
    ELSE [arc |-> a, value |-> value]

\* Serialize(arc, key, int32_t &value, int32_t *defval)
Serialize_int32(a, key, value, defval) ==
    IF isWriting(a)
    THEN [arc |-> IF ~inObject(a.w[1]) \/ defval = <<>> \/ value # defval[1]
                  THEN [WriteKey(a, key) EXCEPT !.w[1] = w_Int(@, value)]
                  ELSE a,
          value |-> value]
    ELSE LET f == FindKey(a.r[1], key) IN
         IF f.val # <<>>
         THEN IF f.val[1].t = "Int"
              THEN [arc |-> [a EXCEPT !.r[1] = f.r], value |-> f.val[1].v]
              ELSE [arc |-> [a EXCEPT !.r[1] = f.r, !.mErrors = @ + 1],
                    value |-> value]
         ELSE [arc |-> [a EXCEPT !.r[1] = f.r], value |-> value]

\* The bits of DObject::ObjectFlags the serializer tests.
OF_EuthanizeMe == "OF_EuthanizeMe"
OF_Transient == "OF_Transient"

\* The weapon pointer that means "no change": it points at no object.
WP_NOCHANGE == -1

\* I_Error does not return: the call that reaches it leaves what it held
\* and raises the error.
I_Error(state) == [state EXCEPT !.thrown = TRUE]

\* mDObjects.Push(value) returning the index of the first element.
Push_First(w) == 0

\* The index mDObjects.Push(value) returns: that of the new, last element.
Push(w) == Len(w.mDObjects)

\* mObjectMap.CheckKey(value) != nullptr
CheckKey(w, value) == value \in DOMAIN w.mObjectMap

\* Serialize(arc, key, DObject *&value, DObject **, bool *retcode) on a
\* writer.  heap maps an object to its TypeName, its ObjectFlags and the
\* reference it holds.
Serialize_DObject_Write(a, heap, key, value) ==
    IF value # NULLP /\ heap[value].ObjectFlags \cap {OF_EuthanizeMe, OF_Transient} = {}
    THEN LET w == a.w[1]
             known == CheckKey(w, value)
             ndx == IF value = WP_NOCHANGE THEN -1
                    ELSE IF known THEN w.mObjectMap[value]
                    ELSE Push(w)
             pushed == IF value = WP_NOCHANGE \/ known THEN a
                       ELSE [a EXCEPT !.w[1].mDObjects = Append(@, value),
                                      !.w[1].mObjectMap = (value :> ndx) @@ @]
         IN  Serialize_int32(pushed, key, ndx, <<>>).arc
    ELSE IF ~inObject(a.w[1])
    THEN [a EXCEPT !.w[1] = w_Null(@)]
    ELSE a

\* Serialize(arc, key, DObject *&value, DObject **, bool *retcode) on a
\* reader, from FindKey on; rc is *retcode as set on entry.
Serialize_DObject_Read(a, key, value, retcode, rc) ==
    LET f == FindKey(a.r[1], key)
        n == [a EXCEPT !.r[1] = f.r]
        index == f.val[1].v
    IN  IF f.val # <<>> /\ f.val[1].t = "Null"
        THEN [arc |-> n, value |-> NULLP, retcode |-> rc, thrown |-> FALSE]
        ELSE IF f.val # <<>> /\ f.val[1].t = "Int"
        THEN IF index = -1
             THEN [arc |-> n, value |-> WP_NOCHANGE, retcode |-> rc,
                   thrown |-> FALSE]
             ELSE IF index >= 0 /\ index < Len(n.r[1].mDObjects)
             THEN [arc |-> n, value |-> n.r[1].mDObjects[index + 1],
                   retcode |-> rc, thrown |-> FALSE]
             ELSE [arc |-> [n EXCEPT !.mErrors = @ + 1], value |-> NULLP,
                   retcode |-> IF retcode = <<>> THEN <<>> ELSE <<FALSE>>,
                   thrown |-> FALSE]
        ELSE IF retcode = <<>>
        THEN [arc |-> n, value |-> NULLP, retcode |-> <<>>, thrown |-> FALSE]
        ELSE [arc |-> n, value |-> value, retcode |-> <<FALSE>>,
              thrown |-> FALSE]

\* Serialize of a DObject* that reads without asking for mObjectsRead.
Serialize_DObject_Unchecked(a, heap, key, value, retcode) ==
    LET rc == IF retcode = <<>> THEN <<>> ELSE <<TRUE>> IN
    IF isWriting(a)
    THEN [arc |-> Serialize_DObject_Write(a, heap, key, value),
          value |-> value, retcode |-> rc, thrown |-> FALSE]
    ELSE Serialize_DObject_Read(a, key, value, retcode, rc)

\* Serialize(arc, key, DObject *&value, DObject **, bool *retcode)
Serialize_DObject(a, heap, key, value, retcode) ==
    LET rc == IF retcode = <<>> THEN <<>> ELSE <<TRUE>> IN
    IF isWriting(a)
    THEN [arc |-> Serialize_DObject_Write(a, heap, key, value),
          value |-> value, retcode |-> rc, thrown |-> FALSE]
    ELSE IF ~a.r[1].mObjectsRead
    THEN I_Error([arc |-> a, value |-> value, retcode |-> rc, thrown |-> FALSE])
    ELSE Serialize_DObject_Read(a, key, value, retcode, rc)

\* FSerializer::BeginArray(name) and EndArray of a writer.
BeginArrayW(a, name) ==
    [WriteKey(a, name) EXCEPT
        !.w[1] = [w_StartArray(@) EXCEPT !.mInObject = Append(@, FALSE)]]

EndArrayW(a) ==
    IF ~inObject(a.w[1])
    THEN [arc |-> [a EXCEPT !.w[1] = [w_EndArray(@) EXCEPT !.mInObject = Pop(@)]],
          thrown |-> FALSE]
    ELSE [arc |-> a, thrown |-> TRUE]

\* obj->SerializeUserVars(arc); obj->Serialize(arc); obj->CheckIfSerialized():
\* the object writes the reference it holds under the key "next".
SerializeObject(a, heap, obj) ==
    Serialize_DObject(a, heap, "next", heap[obj].next, <<>>).arc

\* The body of the loop of WriteObjects for mDObjects[i].
WriteObject(a, heap, i) ==
    LET obj == a.w[1].mDObjects[i + 1]
        begun == BeginObjectW(a, <<>>)
        typed == [begun EXCEPT !.w[1] = w_String(w_Key(@, "classtype"),
                                                 heap[obj].TypeName)]
    IN  EndObjectW(SerializeObject(typed, heap, obj)).arc

\* for (unsigned i = 0; i < w->mDObjects.Size(); i++)
RECURSIVE WriteObjectsFrom(_, _, _)
WriteObjectsFrom(a, heap, i) ==
    IF i < Len(a.w[1].mDObjects)
    THEN WriteObjectsFrom(WriteObject(a, heap, i), heap, i + 1)
    ELSE a

WriteObjects(a, heap) ==
    IF isWriting(a) /\ Len(a.w[1].mDObjects) > 0
    THEN EndArrayW(WriteObjectsFrom(BeginArrayW(a, "objects"), heap, 0)).arc
    ELSE a

\* FSerializer::GetOutput on a serializer that is open: the output (nullptr
\* on a reader) and whether EndObject raised its error.
GetOutput(a, heap) ==
    IF isReading(a)
    THEN [arc |-> a, ret |-> <<>>, thrown |-> FALSE]
    ELSE LET e == EndObjectW(WriteObjects(a, heap))
         IN  [arc |-> e.arc, ret |-> e.arc.w[1].mOutString, thrown |-> e.thrown]

-----------------------------------------------------------------------------
(* Scalar fields written to one object and read back *)

\* The variables of the sound engine, which the serializer leaves alone.
engine == <<chan, Channels, FreeChannels, S_sfx, S_rnd, RestartEvictionsAt,
            SoundPaused, last, res>>

\* The fields of the caller: one of type bool, one of type int32_t.
ScalarKeys == {"flag", "count"}
ScalarValues(key) == IF key = "flag" THEN BOOLEAN ELSE {0, 1}

\* A field to write: its value and the default the caller passes (or nullptr).
ScalarFields(key) ==
    [value : ScalarValues(key),
     defval : {<<>>} \cup {<<d>> : d \in ScalarValues(key)}]

\* The overload of Serialize the type of the field selects.
SerializeField(a, key, value, defval) ==
    IF key = "flag"
    THEN Serialize_bool(a, key, value, defval)
    ELSE Serialize_int32(a, key, value, defval)

\* The caller holds its fields to write and the destinations of the read,
\* which hold any value before it (dst0 keeps what they held).  heap is the
\* caller's objects, out the output it got, thrown whether a call raised an
\* error.
InitScalar ==
    /\ InitEngine(Sounds)
    /\ arc = NoArc
    /\ \E flag \in ScalarFields("flag"), count \in ScalarFields("count"),
          f0 \in ScalarValues("flag"), c0 \in ScalarValues("count") :
          app = [pc |-> "idle",
                 field |-> [flag |-> flag, count |-> count],
                 dst |-> [flag |-> f0, count |-> c0],
                 dst0 |-> [flag |-> f0, count |-> c0],
                 written |-> {}, read |-> {}, heap |-> <<>>, out |-> <<>>,
                 thrown |-> FALSE]

DoOpenWriter ==
    /\ app.pc = "idle"
    /\ arc' = OpenWriter(arc).arc
    /\ app' = [app EXCEPT !.pc = "write"]
    /\ UNCHANGED engine

\* The caller writes the field key, once.
DoWriteField(key) ==
    /\ app.pc = "write"
    /\ key \notin app.written
    /\ arc' = SerializeField(arc, key, app.field[key].value,
                             app.field[key].defval).arc
    /\ app' = [app EXCEPT !.written = @ \cup {key}]
    /\ UNCHANGED engine

DoGetOutput ==
    /\ app.pc = "write"
    /\ LET o == GetOutput(arc, app.heap) IN
          /\ arc' = o.arc
          /\ app' = [app EXCEPT !.pc = "written", !.out = o.ret,
                                !.thrown = o.thrown]
    /\ UNCHANGED engine

\* Close, after the output was taken or after the read.
DoClose ==
    /\ app.pc \in {"written", "read"}
    /\ arc' = Close(arc).arc
    /\ app' = [app EXCEPT !.pc = IF app.pc = "written" THEN "closed" ELSE "end",
                          !.thrown = Close(arc).thrown]
    /\ UNCHANGED engine

\* The output is opened for reading.
DoOpenReader ==
    /\ app.pc = "closed"
    /\ arc' = OpenReader(arc, app.out[1]).arc
    /\ app' = [app EXCEPT !.pc = "read"]
    /\ UNCHANGED engine

\* The caller reads the field key, which it wrote, with the same default.
DoReadField(key) ==
    /\ app.pc = "read"
    /\ key \in app.written \ app.read
    /\ LET s == SerializeField(arc, key, app.dst[key], app.field[key].defval) IN
          /\ arc' = s.arc
          /\ app' = [app EXCEPT !.dst[key] = s.value, !.read = @ \cup {key}]
    /\ UNCHANGED engine

NextScalar ==
    \/ DoOpenWriter
    \/ \E key \in ScalarKeys : DoWriteField(key)
    \/ DoGetOutput
    \/ DoClose
    \/ DoOpenReader
    \/ \E key \in ScalarKeys : DoReadField(key)

SpecScalar == InitScalar /\ [][NextScalar]_vars

\* The output has no member named key.
Elided(key) == FindMember(app.out[1].v, key) = <<>>

\* The field key was written equal to the default passed with it.
AtDefault(key) ==
    /\ app.field[key].defval # <<>>
    /\ app.field[key].value = app.field[key].defval[1]

\* Every field written equal to its default is absent from the output.
DefaultsElided ==
    app.out # <<>> => \A key \in app.written : AtDefault(key) => Elided(key)

\* C17 as stated: fields written to one object under distinct keys with their
\* defaults are absent from the output when equal to their default, and
\* reading the same keys with the same defaults gives back the values
\* written.
C17_RoundTrip ==
    /\ DefaultsElided
    /\ \A key \in app.read : app.dst[key] = app.field[key].value

\* C17: fields written to one object under distinct keys with their defaults
\* are absent from the output when equal to their default; reading the same
\* keys with the same defaults gives back the values written into every
\* destination that held the field's default before the read, and into
\* every destination of a field that differs from its default or has none.
C17_RoundTripFromDefault ==
    /\ DefaultsElided
    /\ \A key \in app.read :
          (AtDefault(key) => app.dst0[key] = app.field[key].defval[1])
          => app.dst[key] = app.field[key].value

\* flag was written as true with default true, is not in the output, and is
\* read back as true into a destination that held true; count, which has no
\* default, was read back too.
C17_Witness ==
    /\ app.pc = "read"
    /\ app.read = {"flag", "count"}
    /\ app.field.flag = [value |-> TRUE, defval |-> <<TRUE>>]
    /\ app.field.count.defval = <<>>
    /\ Elided("flag")
    /\ ~Elided("count")
    /\ app.dst0.flag = TRUE
    /\ app.dst.flag = TRUE

-----------------------------------------------------------------------------
(* The encoding of strings *)

MaxLen == 3         \* longest byte sequence encoded

\* The bytes the sequences are made of: 0, ASCII, and the ends of 128..255.
SampleBytes == {0, 65, 127, 128, 255}

Strings == UNION {[1..n -> SampleBytes] : n \in 0..MaxLen}

InitString ==
    /\ InitEngine(Sounds)
    /\ arc = NoArc
    /\ \E s \in Strings : app = [pc |-> "string", s |-> s, enc |-> <<>>, dec |-> <<>>]

\* k = StringToUnicode(k), as FWriter::String does.
DoStringToUnicode ==
    /\ app.pc = "string"
    /\ app' = [app EXCEPT !.pc = "encoded", !.enc = StringToUnicode(app.s)]
    /\ UNCHANGED <<engine, arc>>

\* value = UnicodeToString(val->GetString()), as the readers of strings do.
DoUnicodeToString ==
    /\ app.pc = "encoded"
    /\ app' = [app EXCEPT !.pc = "decoded", !.dec = UnicodeToString(app.enc)]
    /\ UNCHANGED <<engine, arc>>

NextString ==
    \/ DoStringToUnicode
    \/ DoUnicodeToString

SpecString == InitString /\ [][NextString]_vars

\* Every byte of s is ASCII.
PureASCII(s) == \A i \in 1..Len(s) : s[i] < 128

\* C18 as stated: for every sequence s of bytes in 0..255,
\* UnicodeToString(StringToUnicode(s)) is s, and a pure ASCII s is emitted
\* unchanged.
C18_StringRoundTrip ==
    /\ app.pc = "decoded" => app.dec = app.s
    /\ app.pc \in {"encoded", "decoded"} /\ PureASCII(app.s) => app.enc = app.s

\* C18: for every sequence s of bytes in 0..255,
\* UnicodeToString(StringToUnicode(s)) is s up to its first 0 byte, which
\* ends the string: it is s when the bytes of s are in 1..255.  A pure
\* ASCII s is emitted unchanged.
C18_StringRoundTripToNul ==
    /\ app.pc = "decoded" => app.dec = CStr(app.s)
    /\ app.pc = "decoded" /\ (\A i \in 1..Len(app.s) : app.s[i] # 0) => app.dec = app.s
    /\ app.pc \in {"encoded", "decoded"} /\ PureASCII(app.s) => app.enc = app.s

\* An ASCII byte and the two ends of 128..255 were encoded to five bytes and
\* decoded back.
C18_Witness ==
    /\ app.pc = "decoded"
    /\ app.s = <<65, 128, 255>>
    /\ app.enc = <<65, 194, 128, 195, 191>>
    /\ app.dec = <<65, 128, 255>>

-----------------------------------------------------------------------------
(* References to objects written by one writer *)

MaxObjs == 3        \* objects of the caller's heap

\* The keys under which the caller writes references to the root object.
RefKeys == {"r1", "r2"}

\* Object o: its class has a name of its own, it holds one reference.
NewObject(o, flags, next) ==
    [TypeName |-> <<64 + o>>, ObjectFlags |-> flags, next |-> next]

\* The heaps of the caller: every object refers to any object or to none;
\* the last object may be about to be destroyed.
Heaps ==
    {[o \in 1..MaxObjs |->
         NewObject(o, IF o = MaxObjs THEN flags ELSE {}, next[o])] :
       next \in [1..MaxObjs -> 0..MaxObjs], flags \in {{}, {OF_EuthanizeMe}}}

\* refs is what the caller wrote under each key, order the keys in the
\* order written.
InitObjects ==
    /\ InitEngine(Sounds)
    /\ arc = NoArc
    /\ \E heap \in Heaps :
          app = [pc |-> "idle", heap |-> heap, written |-> {}, refs |-> <<>>,
                 order |-> <<>>, out |-> <<>>, thrown |-> FALSE]

\* The caller writes a reference to value (an object or nullptr) under key.
DoWriteRef(key, value) ==
    /\ app.pc = "write"
    /\ key \notin app.written
    /\ arc' = Serialize_DObject(arc, app.heap, key, value, <<>>).arc
    /\ app' = [app EXCEPT !.written = @ \cup {key},
                          !.refs = (key :> value) @@ @,
                          !.order = Append(@, key)]
    /\ UNCHANGED engine

NextObjects ==
    \/ DoOpenWriter
    \/ \E key \in RefKeys, value \in 0..MaxObjs : DoWriteRef(key, value)
    \/ DoGetOutput

SpecObjects == InitObjects /\ [][NextObjects]_vars

\* A reference to value is written as an index: value is an object that is
\* not being destroyed and not transient.
Managed(value) ==
    /\ value # NULLP
    /\ app.heap[value].ObjectFlags \cap {OF_EuthanizeMe, OF_Transient} = {}

Elements(s) == {s[i] : i \in 1..Len(s)}

\* The objects in the order the writer saw them first: seen, after the
\* references of values were written, one by one.
RECURSIVE FirstSeen(_, _)
FirstSeen(seen, values) ==
    IF values = <<>> THEN seen
    ELSE FirstSeen(IF Managed(Head(values)) /\ Head(values) \notin Elements(seen)
                   THEN Append(seen, Head(values)) ELSE seen,
                   Tail(values))

\* The objects the array "objects" holds when its elements, from the i-th
\* on, have written their references too.
RECURSIVE SeenFrom(_, _)
SeenFrom(seen, i) ==
    IF i > Len(seen) THEN seen
    ELSE SeenFrom(FirstSeen(seen, <<app.heap[seen[i]].next>>), i + 1)

\* The objects the caller has referred to, in the order of the first
\* reference.
RootSeen == FirstSeen(<<>>, [i \in 1..Len(app.order) |-> app.refs[app.order[i]]])

\* The table of the writer gives the objects seen the indices 0, 1, 2, ...
\* in the order they were seen first, each object one index.
TableInOrder(seen) ==
    LET w == arc.w[1] IN
    /\ w.mDObjects = seen
    /\ DOMAIN w.mObjectMap = Elements(seen)
    /\ \A i \in 1..Len(seen) : w.mObjectMap[seen[i]] = i - 1
    /\ \A i, j \in 1..Len(seen) : seen[i] = seen[j] => i = j

\* The member key of the object with the members m is the index of value.
WrittenAs(m, key, value) ==
    Managed(value) => FindMember(m, key) = <<JInt(arc.w[1].mObjectMap[value])>>

\* Element i of the array a is the object seen i-th: its class tag, then
\* its reference.
ObjectAt(a, i) ==
    LET obj == arc.w[1].mDObjects[i] IN
    /\ a[i].t = "Object"
    /\ FindMember(a[i].v, "classtype") = <<JString(app.heap[obj].TypeName)>>
    /\ WrittenAs(a[i].v, "next", app.heap[obj].next)

\* The output has the array "objects" with the objects of the table, one
\* element each, at the position of its index.
ObjectsArray ==
    LET a == FindMember(app.out[1].v, "objects")
        n == Len(arc.w[1].mDObjects)
    IN  IF n = 0 THEN a = <<>>
        ELSE /\ a # <<>>
             /\ a[1].t = "Array"
             /\ Len(a[1].v) = n
             /\ \A i \in 1..n : ObjectAt(a[1].v, i)

\* C19: the first reference to a managed object gives it the next index (0,
\* 1, 2, ... in the order first seen), every later reference to it writes
\* the same index, no two objects share an index, and the array "objects" of
\* the output holds each object of the table once, at the position of its
\* index, the objects first referred to by an element of the array
\* included.
C19_ObjectTable ==
    /\ app.pc = "write" =>
          /\ TableInOrder(RootSeen)
          /\ \A key \in app.written :
                WrittenAs(arc.w[1].open[1].v, key, app.refs[key])
    /\ app.pc = "written" =>
          /\ TableInOrder(SeenFrom(RootSeen, 1))
          /\ \A key \in app.written : WrittenAs(app.out[1].v, key, app.refs[key])
          /\ ObjectsArray

\* Object 1 was referred to twice by the caller; it refers to object 2 and
\* that to object 3, which were first seen while the array was written.
C19_Witness ==
    /\ app.pc = "written"
    /\ app.refs = [r1 |-> 1, r2 |-> 1]
    /\ app.heap[1].next = 2
    /\ app.heap[2].next = 3
    /\ arc.w[1].mDObjects = <<1, 2, 3>>
    /\ ObjectsArray

-----------------------------------------------------------------------------
(* References to objects read back *)

\* The heaps written: every object refers to the first object or to none.
ReadHeaps ==
    {[o \in 1..MaxObjs |-> NewObject(o, {}, next[o])] :
       next \in [1..MaxObjs -> {0, 1}]}

\* The destinations of the read hold any pointer before it.
InitRefRead ==
    /\ InitEngine(Sounds)
    /\ arc = NoArc
    /\ \E heap \in ReadHeaps, d \in [RefKeys -> 0..MaxObjs] :
          app = [pc |-> "idle", heap |-> heap, written |-> {}, refs |-> <<>>,
                 order |-> <<>>, out |-> <<>>, thrown |-> FALSE,
                 dst |-> d, dst0 |-> d, read |-> {}]

\* The caller reads the reference under key, without a retcode; an error
\* raised ends the load.
DoReadRef(key) ==
    /\ app.pc = "read"
    /\ key \notin app.read
    /\ LET s == Serialize_DObject(arc, app.heap, key, app.dst[key], <<>>) IN
          /\ arc' = s.arc
          /\ app' = [app EXCEPT !.dst[key] = s.value, !.read = @ \cup {key},
                                !.thrown = s.thrown,
                                !.pc = IF s.thrown THEN "failed" ELSE "read"]
    /\ UNCHANGED engine

NextRefRead ==
    \/ DoOpenWriter
    \/ \E key \in RefKeys, value \in 0..MaxObjs : DoWriteRef(key, value)
    \/ DoGetOutput
    \/ DoClose
    \/ DoOpenReader
    \/ \E key \in RefKeys : DoReadRef(key)

SpecRefRead == InitRefRead /\ [][NextRefRead]_vars

\* C20: on a reader, reading an object reference while mObjectsRead is
\* false raises the fatal error and leaves the destination pointer as it
\* was.
C20_ReadBeforeObjects ==
    [][\A key \in RefKeys :
          DoReadRef(key) /\ ~arc.r[1].mObjectsRead
          => app'.thrown /\ app'.dst = app.dst]_vars

\* The output holds index 0 under r1; the read of r1 into a destination
\* that pointed to object 2 raised the error and the destination still
\* points to object 2.
C20_Witness ==
    /\ app.pc = "failed"
    /\ app.thrown
    /\ app.read = {"r1"}
    /\ FindMember(app.out[1].v, "r1") = <<JInt(0)>>
    /\ ~arc.r[1].mObjectsRead
    /\ app.dst0["r1"] = 2
    /\ app.dst["r1"] = 2

-----------------------------------------------------------------------------
(* Close, with and without errors counted *)

\* The overload of Serialize for the other type than that of the field.
SerializeOther(a, key, value, defval) ==
    IF key = "flag"
    THEN Serialize_int32(a, key, value, defval)
    ELSE Serialize_bool(a, key, value, defval)

\* The caller reads the field key with the overload of the wrong type.
DoReadOther(key) ==
    /\ app.pc = "read"
    /\ key \in app.written \ app.read
    /\ LET s == SerializeOther(arc, key, app.dst[key], app.field[key].defval) IN
          /\ arc' = s.arc
          /\ app' = [app EXCEPT !.dst[key] = s.value, !.read = @ \cup {key}]
    /\ UNCHANGED engine

\* Close on a serializer that is not open: before OpenWriter, between the
\* write and the read, after the last Close.
DoCloseAgain ==
    /\ app.pc \in {"idle", "closed", "end"}
    /\ arc' = Close(arc).arc
    /\ app' = [app EXCEPT !.thrown = Close(arc).thrown]
    /\ UNCHANGED engine

\* Close while the writer still has its object open.
DoCloseWriter ==
    /\ app.pc = "write"
    /\ arc' = Close(arc).arc
    /\ app' = [app EXCEPT !.pc = "end", !.thrown = Close(arc).thrown]
    /\ UNCHANGED engine

NextClose ==
    \/ DoOpenWriter
    \/ \E key \in ScalarKeys : DoWriteField(key)
    \/ DoGetOutput
    \/ DoClose
    \/ DoCloseWriter
    \/ DoOpenReader
    \/ \E key \in ScalarKeys : DoReadField(key)
    \/ \E key \in ScalarKeys : DoReadOther(key)
    \/ DoCloseAgain

SpecClose == InitScalar /\ [][NextClose]_vars

\* C21: Close on a serializer that is not open changes nothing and raises
\* nothing; Close on an open serializer leaves neither reader nor writer
\* open, and raises the error exactly when the error counter is above 0.
C21_Close ==
    [][DoClose \/ DoCloseWriter \/ DoCloseAgain =>
          IF arc.w = <<>> /\ arc.r = <<>>
          THEN arc' = arc /\ ~app'.thrown
          ELSE /\ arc'.w = <<>>
               /\ arc'.r = <<>>
               /\ app'.thrown <=> arc.mErrors > 0]_vars

\* A reader that counted an error was closed: the error was raised and the
\* reader is released.
C21_Witness ==
    /\ app.pc = "end"
    /\ app.thrown
    /\ arc.mErrors > 0
    /\ arc.w = <<>>
    /\ arc.r = <<>>

-----------------------------------------------------------------------------
(* SpecEnded: voices end at any position, channels are evicted and restored *)

InitEnded == InitWith(AutoSounds)

NextEnded ==
    \/ \E channel \in {CHAN_AUTO, CHAN_LOOP}, accept \in BOOLEAN :
          DoStartSound(SOURCE_Actor, 2, NoPoint, channel, 1, 100, 1, accept, MaxChans)
    \/ \E c \in DOMAIN chan, pos \in 0..EndPos : DoChannelEnded(c, pos)
    \/ \E pos \in 0..MaxPos : DoEvictAllChannels(pos)
    \/ \E acc \in Answers(MaxChans) : DoRestoreEvictedChannels(acc)
    \/ \E acc \in Answers(MaxChans) : DoUpdateSounds(0, acc)

SpecEnded == InitEnded /\ [][NextEnded]_vars

\* ChannelEnded retires a channel with the flags f whose voice ended at pos.
Retires(f, pos) ==
    \/ CHAN_FORGETTABLE \in f
    \/ /\ f \cap {CHAN_LOOP, CHAN_EVICTED} = {}
       /\ \/ pos = 0 /\ CHAN_JUSTSTARTED \notin f
          \/ pos # 0 /\ pos >= SampleLength

\* C22: ChannelEnded retires the channel to Free iff it is Forgettable, or
\* it is neither Loop nor Evicted and the position is 0 with JustStarted
\* clear, or is not 0 and at least the sample length; in every other case
\* the channel stays in Active with Evicted set and no voice.
C22_ChannelEnded ==
    [][\A c \in DOMAIN chan, pos \in 0..EndPos :
          DoChannelEnded(c, pos)
          => IF Retires(chan[c].ChanFlags, pos)
             THEN c \in Free'
             ELSE /\ c \in Active'
                  /\ CHAN_EVICTED \in chan'[c].ChanFlags
                  /\ chan'[c].SysChannel = NULLP]_vars

\* A sound that does not loop is parked though no call evicted it (its
\* start time was never made absolute): its voice ended early; next to it
\* a channel that ended is in the Free list.
C22_Witness ==
    /\ \E c \in Active :
          /\ CHAN_EVICTED \in chan[c].ChanFlags
          /\ chan[c].ChanFlags \cap {CHAN_LOOP, CHAN_ABSTIME} = {}
          /\ chan[c].SysChannel = NULLP
    /\ Free # {}

\* The Active list, head first.
ActiveList == ActiveOf(Engine)

\* The elements of the list s that are in the set S, in the order of s.
Keep(s, S) == SelectSeq(s, LAMBDA x : x \in S)

Reverse(s) == [i \in 1..Len(s) |-> s[Len(s) + 1 - i]]

\* C23: a channel that StartSound returns is the head of the Active list and
\* no call changes the relative order of the other channels that stay in
\* it, EvictAllChannels included, so that the list runs from the newest
\* sound to the oldest; RestoreEvictedChannels asks the backend to restart
\* evicted channels only, from the tail of the list to its head, oldest
\* first.
C23_RestartOrder ==
    [][/\ LET stay == (Active \cap Active')
                         \ (IF last'.op = "StartSound" THEN {last'.ret} ELSE {})
          IN  Keep(ActiveList', stay) = Keep(ActiveList, stay)
       /\ last'.op = "StartSound" /\ last'.ret # NULLP => Head(ActiveList') = last'.ret
       /\ \A acc \in Answers(MaxChans) :
             DoRestoreEvictedChannels(acc)
             => LET asked == RestoreEvictedChannels(Engine, acc).asked IN
                /\ Elements(asked) \subseteq {c \in Active : Evicted(c)}
                /\ last'.accepted \subseteq Elements(asked)
                /\ asked = Reverse(Keep(ActiveList, Elements(asked)))]_vars

\* Two channels were restarted by one RestoreEvictedChannels; channel 2,
\* started last, is the head of the list.
C23_Witness ==
    /\ last.op = "RestoreEvictedChannels"
    /\ last.accepted = {1, 2}
    /\ \A c \in {1, 2} : Playing(c)
    /\ ActiveList = <<2, 1>>

\* The channels of the Active list that the call restarted and that do not
\* loop, with or without CHAN_JUSTSTARTED left from their start.
Restarted(started) ==
    {c \in last'.accepted :
        /\ CHAN_LOOP \notin chan'[c].ChanFlags
        /\ started = (CHAN_JUSTSTARTED \in chan'[c].ChanFlags)}

\* C24 as stated: after RestoreEvictedChannels every channel that does not
\* loop and that it restarted carries Forgettable.
C24_RestartedForgettable ==
    [][\A acc \in Answers(MaxChans) :
          DoRestoreEvictedChannels(acc)
          => \A c \in Restarted(TRUE) \cup Restarted(FALSE) :
                CHAN_FORGETTABLE \in chan'[c].ChanFlags]_vars

\* C24: after RestoreEvictedChannels a channel that does not loop and that
\* it restarted carries Forgettable iff JustStarted is clear on it, which it
\* is when UpdateSounds ran between its start and the call; UpdateSounds
\* itself clears JustStarted before it restores, so every such channel it
\* restarts carries Forgettable.  The voice of a Forgettable channel ending,
\* the channel is retired to Free.
C24_RestartedForgettableUnlessNew ==
    [][/\ \A acc \in Answers(MaxChans) :
             DoRestoreEvictedChannels(acc)
             => /\ \A c \in Restarted(FALSE) : CHAN_FORGETTABLE \in chan'[c].ChanFlags
                /\ \A c \in Restarted(TRUE) : CHAN_FORGETTABLE \notin chan'[c].ChanFlags
       /\ \A acc \in Answers(MaxChans) :
             DoUpdateSounds(0, acc)
             => /\ Restarted(TRUE) = {}
                /\ \A c \in Restarted(FALSE) : CHAN_FORGETTABLE \in chan'[c].ChanFlags
       /\ \A c \in DOMAIN chan, pos \in 0..EndPos :
             DoChannelEnded(c, pos) /\ CHAN_FORGETTABLE \in chan[c].ChanFlags
             => c \in Free']_vars

\* A channel that does not loop plays again after RestoreEvictedChannels and
\* carries Forgettable; another one, once Forgettable, is in the Free list.
C24_Witness ==
    /\ last.op = "RestoreEvictedChannels"
    /\ \E c \in Active \cap last.accepted :
          /\ ~Looping(c)
          /\ Playing(c)
          /\ chan[c].ChanFlags \cap {CHAN_FORGETTABLE, CHAN_JUSTSTARTED}
                 = {CHAN_FORGETTABLE}

-----------------------------------------------------------------------------
(* SpecRestart: RestartChannel on its own.  A singular sound (1) and a sound *)
(* limited to one copy nearby (2) are started, evicted, stopped, and the    *)
(* evicted channels are restarted one at a time.                            *)

InitRestart == InitWith(BlockSounds)

\* RestartChannel(chan) for a channel that is evicted, as its assert asks.
DoRestartChannel(c, accept) ==
    /\ c \in Range(ActiveOf(Engine))
    /\ CHAN_EVICTED \in chan[c].ChanFlags
    /\ Becomes("RestartChannel", RestartChannel(Engine, c, accept), NULLP)

NextRestart ==
    \/ \E channel \in {CHAN_AUTO, CHAN_LOOP}, id \in {1, 2}, accept \in BOOLEAN :
          DoStartSound(SOURCE_Actor, 2, NoPoint, channel, id, 100, 1, accept, MaxChans)
    \/ \E c \in DOMAIN chan : DoStopChannel(c)
    \/ \E pos \in 0..MaxPos : DoEvictAllChannels(pos)
    \/ \E c \in DOMAIN chan, accept \in BOOLEAN : DoRestartChannel(c, accept)

SpecRestart == InitRestart /\ [][NextRestart]_vars

\* C25: RestartChannel either succeeds, and then the channel plays with
\* Evicted and AbsTime cleared and every other flag as before, or it does
\* not, and then the channel's flags are what they were on entry and the
\* channel is in the Active list without a voice.
C25_RestartOutcomes ==
    [][\A c \in DOMAIN chan, accept \in BOOLEAN :
          DoRestartChannel(c, accept)
          => /\ c \in Active'
             /\ IF c \in last'.accepted
                THEN /\ chan'[c].SysChannel # NULLP
                     /\ chan'[c].ChanFlags
                            = chan[c].ChanFlags \ {CHAN_EVICTED, CHAN_ABSTIME}
                ELSE /\ chan'[c].SysChannel = NULLP
                     /\ chan'[c].ChanFlags = chan[c].ChanFlags]_vars

\* RestartChannel restarted a channel while another one is still parked.
C25_Witness ==
    /\ last.op = "RestartChannel"
    /\ \E c \in last.accepted, d \in Active :
          /\ Playing(c)
          /\ chan[c].ChanFlags \cap {CHAN_EVICTED, CHAN_ABSTIME} = {}
          /\ Parked(d)

\* RestartChannel left a channel of the limited sound parked though the
\* backend would have taken it: a copy plays nearby.
RestartBlockedByLimit ==
    /\ last.op = "RestartChannel"
    /\ last.accepted = {}
    /\ \E c, d \in Active :
          /\ Parked(c) /\ chan[c].SoundID = 2
          /\ Playing(d) /\ chan[d].SoundID = 2

-----------------------------------------------------------------------------
(* The pause gate of StartSound *)

\* The channel arguments: a slot, with or without the flags that pass the
\* pause gate.
PauseChannels == {CHAN_AUTO, 1, CHAN_LOOP, CHAN_UI + 1, CHAN_NOPAUSE}

InitPause == InitWith(AutoSounds)

NextPause ==
    \/ \E on \in BOOLEAN : DoSetPaused(on)
    \/ \E channel \in PauseChannels, accept \in BOOLEAN :
          DoStartSound(SOURCE_Actor, 2, NoPoint, channel, 1, 100, 1, accept, MaxChans)
    \/ \E c \in DOMAIN chan : DoStopChannel(c)

SpecPause == InitPause /\ [][NextPause]_vars

\* The flags of a channel argument that let a sound start while paused.
PassesPause(channel) == BitsOf(channel) \cap {CHAN_LOOP, CHAN_UI, CHAN_NOPAUSE} # {}

\* C26: while the engine is paused, StartSound of a sound that is neither
\* looping nor UI nor NoPause returns null and allocates no channel: no new
\* channel object exists and none has joined the Active list.  A start with
\* CHAN_LOOP, CHAN_UI or CHAN_NOPAUSE does while paused exactly what it does
\* when the engine is not paused.
C26_PauseGate ==
    [][\A channel \in PauseChannels, accept \in BOOLEAN :
          (/\ SoundPaused
           /\ DoStartSound(SOURCE_Actor, 2, NoPoint, channel, 1, 100, 1, accept, MaxChans))
          => IF ~PassesPause(channel)
             THEN /\ last'.ret = NULLP
                  /\ last'.accepted = {}
                  /\ DOMAIN chan' = DOMAIN chan
                  /\ Active' \subseteq Active
             ELSE LET u == StartSound([Engine EXCEPT !.SoundPaused = FALSE],
                                      SOURCE_Actor, 2, NoPoint, channel, 1, 100,
                                      1, 0, FALSE, NoDraws, accept)
                  IN  /\ last'.ret = u.ret
                      /\ last'.accepted = u.accepted
                      /\ chan' = u.chan
                      /\ Channels' = u.Channels
                      /\ FreeChannels' = u.FreeChannels]_vars

\* A start was turned down while the engine is paused, and a UI or NoPause
\* one-shot started during the pause is playing.
C26_Witness ==
    /\ SoundPaused
    /\ last.op = "StartSound"
    /\ last.ret = NULLP
    /\ \E c \in Active :
          /\ Playing(c)
          /\ CHAN_LOOP \notin chan[c].ChanFlags
          /\ chan[c].ChanFlags \cap {CHAN_UI, CHAN_NOPAUSE} # {}

\* C27: a StartSound call that returns null has no side effect on playback:
\* every channel that was in the Active list before the call is still in
\* it, with its voice and with every field as it was.
C27_NullStartNoSideEffects ==
    [][\A channel \in PauseChannels, accept \in BOOLEAN :
          (/\ DoStartSound(SOURCE_Actor, 2, NoPoint, channel, 1, 100, 1, accept, MaxChans)
           /\ last'.ret = NULLP)
          => \A c \in Active : Untouched(c)]_vars

\* C27 (amended): a StartSound call that returns null leaves every channel
\* of the Active list in it, unstopped and unmodified, but the one its
\* source plays on the slot asked for, which it may have stopped.
C27_NullStartSparesOtherSlots ==
    [][\A channel \in PauseChannels, accept \in BOOLEAN :
          (/\ DoStartSound(SOURCE_Actor, 2, NoPoint, channel, 1, 100, 1, accept, MaxChans)
           /\ last'.ret = NULLP)
          => \A c \in Active :
                \/ Untouched(c)
                \/ /\ channel % 8 # CHAN_AUTO
                   /\ chan[c].EntChannel = channel % 8
                   /\ c \in Free']_vars

\* A start was turned down and the channel the actor played on that slot
\* is gone: nothing plays, and the stopped channel is in the Free list.
C27_Witness ==
    /\ last.op = "StartSound"
    /\ last.ret = NULLP
    /\ Active = {}
    /\ Free # {}

-----------------------------------------------------------------------------
(* LoadSound on a registry that is not loaded yet *)

\* A rolloff a sound definition sets for itself.
OwnRolloff == [RolloffType |-> 1, MinDistance |-> 100, MaxDistance |-> 500]

\* The entries of the registry but the first: without a lump or with lump
\* 1, which decodes; with and without a rolloff of their own.
LoadEntries ==
    {[NewSfx(l, 0) EXCEPT !.NearLimit = 0, !.Rolloff = r] :
        l \in {NO_LUMP, 1}, r \in {NoRolloff, OwnRolloff}}

\* Entry 1 has lump 3, which does not decode.
LoadTables ==
    {t \in [1..MaxSounds -> LoadEntries \cup {[NewSfx(3, 0) EXCEPT !.NearLimit = 0]}] :
        \A i \in 1..MaxSounds : (i = 1) = (t[i].lumpnum = 3)}

InitLoad ==
    /\ chan = <<>>
    /\ Channels = NULLP
    /\ FreeChannels = NULLP
    /\ S_sfx \in {SfxTable(t) : t \in LoadTables}
    /\ S_rnd = <<>>
    /\ RestartEvictionsAt = 0
    /\ SoundPaused = FALSE
    /\ last = [op |-> "new", ret |-> NULLP, accepted |-> {}]
    /\ res = NoLoop
    /\ arc = NoArc
    /\ app = NoApp

DoLoadSound(sfx) ==
    LET e == LoadSound(Engine, sfx)
    IN  Becomes("LoadSound", e, e.ret)

NextLoad ==
    \/ \E sfx \in 1..MaxSounds : DoLoadSound(sfx)
    \/ \E channel \in {CHAN_AUTO, 1}, id \in 1..MaxSounds, accept \in BOOLEAN :
          DoStartSound(SOURCE_Actor, 2, NoPoint, channel, id, 100, 1, accept, MaxChans)
    \/ \E c \in DOMAIN chan : DoStopChannel(c)

SpecLoad == InitLoad /\ [][NextLoad]_vars

\* The entries that hold the decoded data of the lump of entry sfx.
Copies(sfx) ==
    {i \in DOMAIN S_sfx : /\ S_sfx[i].data # NoHandle
                          /\ S_sfx[i].link = NO_LINK
                          /\ S_sfx[i].lumpnum = S_sfx[sfx].lumpnum}

\* C28: LoadSound of an unloaded entry whose lump another entry with
\* link == NO_LINK has loaded reads and decodes nothing, sets the entry's
\* link to that entry's index, returns that entry and, when the entry's own
\* rolloff is unset (MinDistance == 0), gives it the rolloff of that entry.
C28_DedupAdoptsCanonical ==
    [][\A sfx \in 1..MaxSounds :
          (DoLoadSound(sfx) /\ S_sfx[sfx].data = NoHandle /\ Copies(sfx) # {})
          => \E i \in Copies(sfx) :
                /\ LoadSound(Engine, sfx).tried = <<>>
                /\ last'.ret = i
                /\ S_sfx' = [S_sfx EXCEPT
                                ![sfx].link = i,
                                ![sfx].Rolloff =
                                    IF @.MinDistance = 0 THEN S_sfx[i].Rolloff
                                    ELSE @]]_vars

\* C28 (amended): the same, but an unset rolloff becomes the engine's
\* default rolloff S_Rolloff, whatever the rolloff of the entry linked to.
C28_DedupAdoptsDefault ==
    [][\A sfx \in 1..MaxSounds :
          (DoLoadSound(sfx) /\ S_sfx[sfx].data = NoHandle /\ Copies(sfx) # {})
          => \E i \in Copies(sfx) :
                /\ LoadSound(Engine, sfx).tried = <<>>
                /\ last'.ret = i
                /\ S_sfx' = [S_sfx EXCEPT
                                ![sfx].link = i,
                                ![sfx].Rolloff =
                                    IF @.MinDistance = 0 THEN S_Rolloff
                                    ELSE @]]_vars

\* LoadSound has linked an entry without rolloff to a loaded entry with a
\* rolloff of its own, and returned the latter.
C28_Witness ==
    /\ last.op = "LoadSound"
    /\ \E sfx \in 1..MaxSounds :
          /\ S_sfx[sfx].link = last.ret
          /\ S_sfx[sfx].data = NoHandle
          /\ S_sfx[sfx].Rolloff = S_Rolloff
          /\ S_sfx[last.ret].data # NoHandle
          /\ S_sfx[last.ret].lumpnum = S_sfx[sfx].lumpnum
          /\ S_sfx[last.ret].Rolloff = OwnRolloff

\* C29: LoadSound reads a lump at most twice.  For an unloaded entry without
\* a loaded copy whose lump is absent or does not decode, the lump becomes
\* the empty sound's, read once more when it was another lump before, and
\* the entry stays without data.  StartSound of a sound whose entry ends
\* with the empty sound's lump returns null, allocates no channel and stops
\* none.
C29_LoadSoundEnds ==
    [][/\ \A sfx \in 1..MaxSounds :
            DoLoadSound(sfx)
            => LET tried == LoadSound(Engine, sfx).tried IN
               /\ Len(tried) <= 2
               /\ (/\ S_sfx[sfx].data = NoHandle
                   /\ Copies(sfx) = {}
                   /\ ~Decodes(S_sfx[sfx].lumpnum))
                  => /\ S_sfx' = [S_sfx EXCEPT ![sfx].lumpnum = sfx_empty]
                     /\ last'.ret = sfx
                     /\ tried = IF S_sfx[sfx].lumpnum \in {NO_LUMP, sfx_empty}
                                THEN <<sfx_empty>>
                                ELSE <<S_sfx[sfx].lumpnum, sfx_empty>>
       /\ \A channel \in {CHAN_AUTO, 1}, id \in 1..MaxSounds, accept \in BOOLEAN :
            DoStartSound(SOURCE_Actor, 2, NoPoint, channel, id, 100, 1, accept, MaxChans)
            => /\ Len(StartSound(Engine, SOURCE_Actor, 2, NoPoint, channel, id,
                                 100, 1, 0, FALSE, NoDraws, accept).tried) <= 2
               /\ S_sfx'[id].lumpnum = sfx_empty
                  => /\ last'.ret = NULLP
                     /\ last'.accepted = {}
                     /\ chan' = chan
                     /\ Channels' = Channels
                     /\ FreeChannels' = FreeChannels]_vars

\* LoadSound has given up on entry 1, whose lump 3 did not decode: the entry
\* has the empty sound's lump and no data, while a sound is playing.
C29_Witness ==
    /\ last.op = "LoadSound"
    /\ last.ret = 1
    /\ S_sfx[1].lumpnum = sfx_empty
    /\ S_sfx[1].data = NoHandle
    /\ \E c \in Active : Playing(c)

\* StartSound was turned down while the actor's sound on slot 1 plays on.
EmptyStartSparesSlot ==
    /\ last.op = "StartSound"
    /\ last.ret = NULLP
    /\ S_sfx[1].lumpnum = sfx_empty
    /\ \E c \in Active : Playing(c) /\ chan[c].EntChannel = 1

-----------------------------------------------------------------------------
(* The registry's names: AddSoundLump, HashSounds, FindSound *)

\* Names are strings of the letters below; a name is a sequence of them.
Lower(ch) == IF ch = "A" THEN "a" ELSE IF ch = "B" THEN "b" ELSE ch

LowerName(name) == [i \in 1..Len(name) |-> Lower(name[i])]

\* stricmp: 0 when the names are the same but for the case of the letters.
stricmp(a, b) == IF LowerName(a) = LowerName(b) THEN 0 ELSE 1

Code(ch) == IF ch = "a" THEN 1 ELSE IF ch = "b" THEN 2 ELSE IF ch = "A" THEN 3 ELSE 4

\* The hash of the letters; for the short names used here it stays far
\* below 2^32, the width of the key.
RECURSIVE KeyFrom(_, _)
KeyFrom(h, name) ==
    IF name = <<>> THEN h
    ELSE KeyFrom(3 * h + Code(Head(name)), Tail(name))

\* A key that tells the case of the letters apart.
MakeKey_CaseSensitive(name) == KeyFrom(0, name)

\* MakeKey: an unsigned 32 bit hash of the name in lower case.
MakeKey(name) == KeyFrom(0, LowerName(name))

\* AddSoundLump(logicalname, lump, CurrentPitchMask, -1): the engine with
\* the new entry, ret its index.
AddSoundLump(e, logicalname, lump, CurrentPitchMask) ==
    LET size == Cardinality(DOMAIN e.S_sfx)
        newsfx == NewSfx(lump, CurrentPitchMask)
                    @@ [name |-> logicalname, next |-> 0, index |-> 0]
    IN  [e EXCEPT !.S_sfx = [i \in 0..size |-> IF i = size THEN newsfx ELSE @[i]],
                  !.ret = size]

\* The second loop of HashSounds from entry i on.
RECURSIVE HashChains(_, _, _)
HashChains(t, i, size) ==
    IF i >= size THEN t
    ELSE LET j == MakeKey(t[i].name) % size
         IN  HashChains([[t EXCEPT ![i].next = t[j].index] EXCEPT ![j].index = i],
                        i + 1, size)

HashSounds(e) ==
    [e EXCEPT !.S_sfx =
        HashChains([i \in DOMAIN @ |-> [@[i] EXCEPT !.index = 0]], 1,
                   Cardinality(DOMAIN @))]

\* The loop of FindSound from entry i on.
RECURSIVE FindChain(_, _, _)
FindChain(t, i, logicalname) ==
    IF i # 0 /\ stricmp(t[i].name, logicalname) # 0
    THEN FindChain(t, t[i].next, logicalname)
    ELSE i

\* No name: the null pointer.
NoName == <<"(null)">>

\* FindSound(logicalname): the index found.
FindSound(e, logicalname) ==
    IF logicalname # NoName
    THEN FindChain(e.S_sfx,
                   e.S_sfx[MakeKey(logicalname) % Cardinality(DOMAIN e.S_sfx)].index,
                   logicalname)
    ELSE 0

\* The loop of FindSoundNoHash from entry i on.
RECURSIVE FindSoundNoHashFrom(_, _, _)
FindSoundNoHashFrom(t, i, logicalname) ==
    IF i >= Cardinality(DOMAIN t) THEN 0
    ELSE IF stricmp(t[i].name, logicalname) = 0 THEN i
    ELSE FindSoundNoHashFrom(t, i + 1, logicalname)

FindSoundNoHash(e, logicalname) == FindSoundNoHashFrom(e.S_sfx, 1, logicalname)

\* The names sounds are added and looked up with.
HashNames ==
    {<<"a">>, <<"A">>, <<"b">>, <<"a", "b">>, <<"A", "B">>, <<"b", "a">>}

InitHash ==
    /\ chan = <<>>
    /\ Channels = NULLP
    /\ FreeChannels = NULLP
    /\ S_sfx = [i \in {0} |-> NewSfx(sfx_empty, 0)
                                @@ [name |-> <<>>, next |-> 0, index |-> 0]]
    /\ S_rnd = <<>>
    /\ RestartEvictionsAt = 0
    /\ SoundPaused = FALSE
    /\ last = [op |-> "new", ret |-> NULLP, accepted |-> {}]
    /\ res = NoLoop
    /\ arc = NoArc
    /\ app = NoApp

DoAddSoundLump(logicalname) ==
    LET e == AddSoundLump(Engine, logicalname, 1, 0)
    IN  /\ Cardinality(DOMAIN S_sfx) <= MaxSounds
        /\ Becomes("AddSoundLump", e, e.ret)

DoHashSounds == Becomes("HashSounds", HashSounds(Engine), NULLP)

DoFindSound(logicalname) ==
    Becomes("FindSound", Engine, FindSound(Engine, logicalname))

DoFindSoundNoHash(logicalname) ==
    Becomes("FindSoundNoHash", Engine, FindSoundNoHash(Engine, logicalname))

NextHash ==
    \/ \E n \in HashNames : DoAddSoundLump(n)
    \/ DoHashSounds
    \/ \E n \in HashNames \cup {NoName} : DoFindSound(n)
    \/ \E n \in HashNames : DoFindSoundNoHash(n)

SpecHash == InitHash /\ [][NextHash]_vars

\* The hash chains are what HashSounds makes of the table.
Hashed == S_sfx = HashSounds(Engine).S_sfx

\* The entries that carry the name, whatever the case of the letters.
Carriers(n) == {i \in DOMAIN S_sfx \ {0} : stricmp(S_sfx[i].name, n) = 0}

\* C30: after HashSounds, FindSound of the name of an entry i >= 1, in any
\* case of the letters, returns what FindSoundNoHash returns, and FindSound
\* of a name that no entry carries returns 0.
C30_FindSoundAgrees ==
    Hashed => \A n \in HashNames :
                 /\ FindSound(Engine, n) = FindSoundNoHash(Engine, n)
                 /\ Carriers(n) = {} => FindSound(Engine, n) = 0

\* C30 (amended): after HashSounds, FindSound of a name returns the highest
\* index of the entries that carry it, in any case of the letters, and
\* FindSoundNoHash the lowest; both return 0 when no entry carries it, and
\* FindSound(NULL) is 0.  They agree on the names one entry carries.
C30_FindSoundHighest ==
    Hashed => /\ \A n \in HashNames :
                   IF Carriers(n) = {}
                   THEN FindSound(Engine, n) = 0 /\ FindSoundNoHash(Engine, n) = 0
                   ELSE /\ FindSound(Engine, n) \in Carriers(n)
                        /\ FindSoundNoHash(Engine, n) \in Carriers(n)
                        /\ \A i \in Carriers(n) :
                              FindSoundNoHash(Engine, n) <= i /\ i <= FindSound(Engine, n)
              /\ FindSound(Engine, NoName) = 0

\* FindSound has found the last entry under a name written in another case,
\* at the end of a chain of two: another entry has the same key.
C30_Witness ==
    /\ Hashed
    /\ last.op = "FindSound"
    /\ last.ret = MaxSounds
    /\ MaxSounds \in DOMAIN S_sfx
    /\ S_sfx[MaxSounds].next # 0
    /\ \E n \in HashNames :
          /\ n # S_sfx[MaxSounds].name
          /\ FindSound(Engine, n) = MaxSounds
          /\ FindSoundNoHash(Engine, n) = MaxSounds

-----------------------------------------------------------------------------
(* The writer's containers: Begin and End calls in any order *)

\* FSerializer::WriteKey(key); a pointer is <<>> when null, else <<key>>.
WriteKeyPtr(a, key) ==
    IF isWriting(a) /\ inObject(a.w[1])
    THEN IF key = <<>>
         THEN I_Error([arc |-> a, thrown |-> FALSE])
         ELSE [arc |-> [a EXCEPT !.w[1] = w_Key(@, key[1])], thrown |-> FALSE]
    ELSE [arc |-> a, thrown |-> FALSE]

\* FReader::FindKey(key): outside an iteration with GetKey mKeyValue is
\* nullptr, which a null key finds in an object.
FindKeyPtr(r, key) ==
    IF key = <<>> /\ Last(r.mObjects).mObject.t = "Object"
    THEN [val |-> <<>>, r |-> r]
    ELSE FindKey(r, IF key = <<>> THEN "" ELSE key[1])

\* The reader's part of BeginObject and BeginArray: the value under name is
\* pushed when it has the type t.
BeginRead(a, name, t) ==
    LET f == FindKeyPtr(a.r[1], name) IN
    IF f.val # <<>>
    THEN IF f.val[1].t = t
         THEN [arc |-> [a EXCEPT !.r[1] =
                           [f.r EXCEPT !.mObjects =
                               Append(@, [mObject |-> f.val[1], mIndex |-> 0])]],
               ret |-> TRUE, thrown |-> FALSE]
         ELSE [arc |-> [a EXCEPT !.r[1] = f.r, !.mErrors = @ + 1],
               ret |-> FALSE, thrown |-> FALSE]
    ELSE [arc |-> [a EXCEPT !.r[1] = f.r], ret |-> FALSE, thrown |-> FALSE]

\* FSerializer::BeginObject(name)
BeginObject(a, name) ==
    IF isWriting(a)
    THEN LET k == WriteKeyPtr(a, name) IN
         IF k.thrown THEN [arc |-> a, ret |-> FALSE, thrown |-> TRUE]
         ELSE [arc |-> [k.arc EXCEPT !.w[1] =
                           [w_StartObject(@) EXCEPT !.mInObject = Append(@, TRUE)]],
               ret |-> TRUE, thrown |-> FALSE]
    ELSE BeginRead(a, name, "Object")

\* FSerializer::EndObject
EndObject(a) ==
    IF isWriting(a) THEN EndObjectW(a)
    ELSE [arc |-> [a EXCEPT !.r[1].mObjects = Pop(@)], thrown |-> FALSE]

\* FSerializer::BeginArray(name)
BeginArray(a, name) ==
    IF isWriting(a)
    THEN LET k == WriteKeyPtr(a, name) IN
         IF k.thrown THEN [arc |-> a, ret |-> FALSE, thrown |-> TRUE]
         ELSE [arc |-> [k.arc EXCEPT !.w[1] =
                           [w_StartArray(@) EXCEPT !.mInObject = Append(@, FALSE)]],
               ret |-> TRUE, thrown |-> FALSE]
    ELSE BeginRead(a, name, "Array")

\* FSerializer::EndArray: the outcomes.  With no container open inObject()
\* is false too, and the JSON writer is told to end an array it never
\* started and mInObject to pop an element it does not have: the behaviour
\* is undefined, the program is stopped by an assertion of the JSON writer
\* or goes on with a writer as it was.
EndArray(a) ==
    IF isWriting(a)
    THEN IF ~inObject(a.w[1])
         THEN IF a.w[1].mInObject = <<>>
              THEN {[arc |-> a, thrown |-> FALSE, aborted |-> TRUE],
                    [arc |-> a, thrown |-> FALSE, aborted |-> FALSE]}
              ELSE {EndArrayW(a) @@ [aborted |-> FALSE]}
         ELSE {[arc |-> a, thrown |-> TRUE, aborted |-> FALSE]}
    ELSE {[arc |-> [a EXCEPT !.r[1].mObjects = Pop(@)], thrown |-> FALSE,
           aborted |-> FALSE]}

\* The calls a session makes, the containers it nests.
MaxCalls == 4
MaxDepth == 3

\* The names passed to BeginObject and BeginArray: nullptr or a key.
NestNames == {<<>>, <<"o">>}

\* The scalars written: the bool and the int32_t, with and without default.
NestFields(key) ==
    IF key = "flag" THEN ScalarFields(key)
    ELSE {f \in ScalarFields(key) : f.value = 0}

\* The caller: lastc is the call it made last.
InitNest ==
    /\ InitEngine(Sounds)
    /\ arc = NoArc
    /\ app = [pc |-> "idle", calls |-> 0, ret |-> TRUE, thrown |-> FALSE,
              lastc |-> [op |-> "none"]]

\* The call made; the session ends when it raised an error or the program
\* was stopped.
Called(a, c, ret, thrown, aborted) ==
    /\ arc' = a
    /\ app' = [app EXCEPT !.calls = @ + 1, !.ret = ret, !.thrown = thrown,
                          !.lastc = c,
                          !.pc = IF thrown THEN "failed"
                                 ELSE IF aborted THEN "aborted" ELSE @]
    /\ UNCHANGED engine

\* The caller is writing and has calls left.
InSession == app.pc = "write" /\ app.calls < MaxCalls

\* The caller is writing into an open container and may nest another.
InContainer == InSession /\ arc.w[1].mInObject # <<>>

\* OpenWriter or OpenReader on the open serializer.
DoOpenAgain(reader) ==
    /\ InSession
    /\ LET o == IF reader THEN OpenReader(arc, JObject(<<>>)) ELSE OpenWriter(arc)
       IN  Called(o.arc, [op |-> "Open"], o.ret, FALSE, FALSE)

DoBeginObject(name) ==
    /\ InContainer
    /\ Len(arc.w[1].mInObject) < MaxDepth
    /\ LET b == BeginObject(arc, name)
       IN  Called(b.arc, [op |-> "BeginObject", name |-> name], b.ret, b.thrown, FALSE)

DoEndObject ==
    /\ InSession
    /\ LET b == EndObject(arc)
       IN  Called(b.arc, [op |-> "EndObject"], TRUE, b.thrown, FALSE)

DoBeginArray(name) ==
    /\ InContainer
    /\ Len(arc.w[1].mInObject) < MaxDepth
    /\ LET b == BeginArray(arc, name)
       IN  Called(b.arc, [op |-> "BeginArray", name |-> name], b.ret, b.thrown, FALSE)

DoEndArray ==
    /\ InSession
    /\ \E b \in EndArray(arc) :
          Called(b.arc, [op |-> "EndArray"], TRUE, b.thrown, b.aborted)

\* Serialize(arc, key, value, defval) for the field f.
DoSerialize(key, f) ==
    /\ InContainer
    /\ Called(SerializeField(arc, key, f.value, f.defval).arc,
              [op |-> "Serialize", key |-> key, f |-> f], TRUE, FALSE, FALSE)

NextNest ==
    \/ DoOpenWriter
    \/ \E reader \in BOOLEAN : DoOpenAgain(reader)
    \/ \E name \in NestNames : DoBeginObject(name)
    \/ DoEndObject
    \/ \E name \in NestNames : DoBeginArray(name)
    \/ DoEndArray
    \/ \E key \in ScalarKeys : \E f \in NestFields(key) : DoSerialize(key, f)

SpecNest == InitNest /\ [][NextNest]_vars

\* The JSON value of the field key with the value v.
JScalar(key, v) == IF key = "flag" THEN JBool(v) ELSE JInt(v)

\* The innermost container the writer has open.
Innermost(a) == Last(a.w[1].open)

\* C31: on write, a scalar is elided exactly when the writer is inside an
\* object, a default is passed and the value equals it: the writer is then
\* as it was.  In every other case, so always inside an array and always
\* without a default, the innermost container gets one more element at its
\* end, an object with the key, an array without, and nothing else changes.
C31_ElidedIff ==
    [][\A key \in ScalarKeys : \A f \in NestFields(key) :
          (/\ app'.calls = app.calls + 1
           /\ app'.lastc.op = "Serialize"
           /\ app'.lastc.key = key
           /\ app'.lastc.f = f
           /\ DoSerialize(key, f))
          => IF /\ inObject(arc.w[1])
                /\ f.defval # <<>>
                /\ f.value = f.defval[1]
             THEN arc' = arc
             ELSE /\ arc'.w[1].mInObject = arc.w[1].mInObject
                  /\ Pop(arc'.w[1].open) = Pop(arc.w[1].open)
                  /\ Innermost(arc').t = Innermost(arc).t
                  /\ Innermost(arc').v =
                        Append(Innermost(arc).v,
                               IF Innermost(arc).t = "Object"
                               THEN [k |-> <<key>>, x |-> JScalar(key, f.value)]
                               ELSE JScalar(key, f.value))]_vars

\* A scalar equal to the default passed with it has become the second
\* element of an array.
C31_Witness ==
    /\ app.pc = "write"
    /\ app.lastc.op = "Serialize"
    /\ app.lastc.f.defval = <<app.lastc.f.value>>
    /\ arc.w[1].mInObject # <<>>
    /\ Innermost(arc).t = "Array"
    /\ Len(Innermost(arc).v) = 2
    /\ Innermost(arc).v[2] = JScalar(app.lastc.key, app.lastc.f.value)

-----------------------------------------------------------------------------
(* Narrow integers, widened for storage *)

\* A uint32_t is held as <<high 16 bits, low 16 bits>>.  The conversion of
\* an int to uint32_t is modulo 2^32.
ToU32(i) == <<(i \div 65536) % 65536, i % 65536>>

JUint(u) == [t |-> "Uint", v |-> u]
w_Uint(w, u) == Emit(w, JUint(u))

\* Value::IsUint and GetUint: a number that is not negative.
IsUint(x) == x.t = "Uint" \/ (x.t = "Int" /\ x.v >= 0)
GetUint(x) == IF x.t = "Uint" THEN x.v ELSE ToU32(x.v)

\* Serialize(arc, key, uint32_t &value, uint32_t *defval)
Serialize_uint32(a, key, value, defval) ==
    IF isWriting(a)
    THEN [arc |-> IF ~inObject(a.w[1]) \/ defval = <<>> \/ value # defval[1]
                  THEN [WriteKey(a, key) EXCEPT !.w[1] = w_Uint(@, value)]
                  ELSE a,
          value |-> value]
    ELSE LET f == FindKey(a.r[1], key) IN
         IF f.val # <<>>
         THEN IF IsUint(f.val[1])
              THEN [arc |-> [a EXCEPT !.r[1] = f.r], value |-> GetUint(f.val[1])]
              ELSE [arc |-> [a EXCEPT !.r[1] = f.r, !.mErrors = @ + 1],
                    value |-> value]
         ELSE [arc |-> [a EXCEPT !.r[1] = f.r], value |-> value]

\* A default that is the value itself.
Synthesized_Same(value) == value

\* The default the narrow overloads pass on when they get none: value - 1,
\* computed in int.
Synthesized(value) == value - 1

\* (int8_t)vv and (int16_t)vv
ToInt8(vv) == ((vv + 128) % 256) - 128
ToInt16(vv) == ((vv + 32768) % 65536) - 32768

\* Serialize(arc, key, int8_t &value, int8_t *defval)
Serialize_int8(a, key, value, defval) ==
    LET vv == value
        vvd == IF defval # <<>> THEN defval[1] ELSE Synthesized(value)
        s == Serialize_int32(a, key, vv, <<vvd>>)
    IN  [arc |-> s.arc, value |-> ToInt8(s.value)]

\* Serialize(arc, key, uint8_t &value, uint8_t *defval)
Serialize_uint8(a, key, value, defval) ==
    LET vv == ToU32(value)
        vvd == IF defval # <<>> THEN ToU32(defval[1]) ELSE ToU32(Synthesized(value))
        s == Serialize_uint32(a, key, vv, <<vvd>>)
    IN  [arc |-> s.arc, value |-> s.value[2] % 256]

\* Serialize(arc, key, int16_t &value, int16_t *defval)
Serialize_int16(a, key, value, defval) ==
    LET vv == value
        vvd == IF defval # <<>> THEN defval[1] ELSE Synthesized(value)
        s == Serialize_int32(a, key, vv, <<vvd>>)
    IN  [arc |-> s.arc, value |-> ToInt16(s.value)]

\* Serialize(arc, key, uint16_t &value, uint16_t *defval)
Serialize_uint16(a, key, value, defval) ==
    LET vv == ToU32(value)
        vvd == IF defval # <<>> THEN ToU32(defval[1]) ELSE ToU32(Synthesized(value))
        s == Serialize_uint32(a, key, vv, <<vvd>>)
    IN  [arc |-> s.arc, value |-> s.value[2]]

NarrowTypes == {"int8_t", "uint8_t", "int16_t", "uint16_t"}

\* The overload the type of the field selects.
SerializeNarrow(a, type, key, value, defval) ==
    IF type = "int8_t" THEN Serialize_int8(a, key, value, defval)
    ELSE IF type = "uint8_t" THEN Serialize_uint8(a, key, value, defval)
    ELSE IF type = "int16_t" THEN Serialize_int16(a, key, value, defval)
    ELSE Serialize_uint16(a, key, value, defval)

\* The values written: every value of the 8 bit types, the values at the
\* ends and at the byte borders of the 16 bit types.
NarrowValues(type) ==
    IF type = "int8_t" THEN -128..127
    ELSE IF type = "uint8_t" THEN 0..255
    ELSE IF type = "int16_t"
    THEN {-32768, -32767, -257, -256, -129, -128, -1, 0, 1, 127, 128, 255,
          256, 32766, 32767}
    ELSE {0, 1, 127, 128, 255, 256, 32767, 32768, 65534, 65535}

\* The caller has one narrow field named v: it writes value with the
\* default defval (or none) and reads it back into dst, which held dst0.
InitNarrow ==
    /\ InitEngine(Sounds)
    /\ arc = NoArc
    /\ \E type \in NarrowTypes :
       \E value \in NarrowValues(type), d0 \in {0, 1} :
       \E defval \in {<<>>, <<value>>, <<0>>, <<1>>} :
          app = [pc |-> "idle", type |-> type,
                 field |-> [v |-> [value |-> value, defval |-> defval]],
                 dst |-> [v |-> d0], dst0 |-> [v |-> d0],
                 written |-> {}, read |-> {}, heap |-> <<>>, out |-> <<>>,
                 thrown |-> FALSE]

DoWriteNarrow ==
    /\ app.pc = "write"
    /\ "v" \notin app.written
    /\ arc' = SerializeNarrow(arc, app.type, "v", app.field.v.value,
                              app.field.v.defval).arc
    /\ app' = [app EXCEPT !.written = {"v"}]
    /\ UNCHANGED engine

DoReadNarrow ==
    /\ app.pc = "read"
    /\ "v" \in app.written \ app.read
    /\ LET s == SerializeNarrow(arc, app.type, "v", app.dst.v, app.field.v.defval) IN
          /\ arc' = s.arc
          /\ app' = [app EXCEPT !.dst.v = s.value, !.read = {"v"}]
    /\ UNCHANGED engine

NextNarrow ==
    \/ DoOpenWriter
    \/ DoWriteNarrow
    \/ DoGetOutput
    \/ DoClose
    \/ DoOpenReader
    \/ DoReadNarrow

SpecNarrow == InitNarrow /\ [][NextNarrow]_vars

\* The value as the writer stores it: a 32 bit number, unsigned for the
\* unsigned types.
Widened(type, value) ==
    IF type \in {"uint8_t", "uint16_t"} THEN JUint(ToU32(value)) ELSE JInt(value)

\* C32: a narrow integer is stored widened to 32 bits and narrowed back on
\* read, so that writing a value and reading it gives the value back, and a
\* narrow value written without a default is never elided.
C32_NarrowRoundTrip ==
    /\ (app.out # <<>> /\ "v" \in app.written /\ app.field.v.defval = <<>>)
       => ~Elided("v")
    /\ "v" \in app.read => app.dst.v = app.field.v.value

\* C32 (amended): a narrow integer written without a default, or with a
\* default that differs from it, is stored widened to 32 bits, and reading
\* it gives the value back whatever the destination held; written equal to
\* the default passed with it, it is elided, and the read leaves the
\* destination as it was.
C32_NarrowRoundTripStored ==
    /\ (app.out # <<>> /\ "v" \in app.written)
       => IF AtDefault("v") THEN Elided("v")
          ELSE FindMember(app.out[1].v, "v")
                  = <<Widened(app.type, app.field.v.value)>>
    /\ "v" \in app.read
       => app.dst.v = IF AtDefault("v") THEN app.dst0.v ELSE app.field.v.value

\* The uint8_t 0 was written without a default, which the overload makes
\* 2^32 - 1: it is in the output and was read back into a destination that
\* held 1.
C32_Witness ==
    /\ app.pc = "read"
    /\ app.read = {"v"}
    /\ app.type = "uint8_t"
    /\ app.field.v = [value |-> 0, defval |-> <<>>]
    /\ FindMember(app.out[1].v, "v") = <<JUint(<<0, 0>>)>>
    /\ app.dst0.v = 1
    /\ app.dst.v = 0

-----------------------------------------------------------------------------
(* Reading scalars from objects and arrays *)

\* The values the documents hold, by number.
ReadValue(i) == IF i = 1 THEN JBool(TRUE) ELSE IF i = 2 THEN JInt(1) ELSE JNull

\* A document: the member flag holds value i, if i is not 0, and the
\* member list holds an array of n values.
ReadDoc(i, n, i1, i2) ==
    JObject((IF i = 0 THEN <<>> ELSE <<[k |-> <<"flag">>, x |-> ReadValue(i)]>>)
            \o <<[k |-> <<"list">>,
                  x |-> JArray(SubSeq(<<ReadValue(i1), ReadValue(i2)>>, 1, n))]>>)

\* The caller has the document at hand and two destinations, one for each
\* overload.
InitRead ==
    /\ InitEngine(Sounds)
    /\ arc = NoArc
    /\ \E i \in 0..3, n \in 0..2, i1 \in 1..3, i2 \in 1..3 :
          app = [pc |-> "closed", out |-> <<ReadDoc(i, n, i1, i2)>>,
                 dst |-> [bool |-> FALSE, int32_t |-> 0],
                 calls |-> 0, ret |-> TRUE, thrown |-> FALSE,
                 lastc |-> [op |-> "none"]]

\* The caller is reading and has calls left.
InReading == app.pc = "read" /\ app.calls < MaxCalls

\* Serialize(arc, key, value, nullptr) with the overload for type.
DoReadScalar(key, type) ==
    /\ InReading
    /\ LET s == IF type = "bool"
                THEN Serialize_bool(arc, key, app.dst.bool, <<>>)
                ELSE Serialize_int32(arc, key, app.dst.int32_t, <<>>)
       IN  /\ arc' = s.arc
           /\ app' = [app EXCEPT !.calls = @ + 1, !.dst[type] = s.value,
                                 !.lastc = [op |-> "Serialize", key |-> key,
                                            type |-> type]]
    /\ UNCHANGED engine

\* BeginArray(name) on the reader.
DoBeginArrayR(name) ==
    /\ InReading
    /\ LET b == BeginArray(arc, <<name>>)
       IN  Called(b.arc, [op |-> "BeginArray", name |-> name], b.ret, b.thrown, FALSE)

\* EndArray on the reader, inside the array it has begun.
DoEndArrayR ==
    /\ InReading
    /\ Len(arc.r[1].mObjects) > 1
    /\ \E b \in EndArray(arc) :
          Called(b.arc, [op |-> "EndArray"], TRUE, b.thrown, b.aborted)

ReadKeys == {"flag", "none"}
ReadTypes == {"bool", "int32_t"}

NextRead ==
    \/ DoOpenReader
    \/ \E key \in ReadKeys, type \in ReadTypes : DoReadScalar(key, type)
    \/ \E name \in {"list", "flag"} : DoBeginArrayR(name)
    \/ DoEndArrayR

SpecRead == InitRead /\ [][NextRead]_vars

\* What the reader is in: the object or array, and the index of the next
\* element of the array.
ReadingIn == Last(arc.r[1].mObjects)

\* The value a read of key meets: the member of the object, the next
\* element of the array, or none.
Met(key) ==
    IF ReadingIn.mObject.t = "Object" THEN FindMember(ReadingIn.mObject.v, key)
    ELSE IF ReadingIn.mIndex < Len(ReadingIn.mObject.v)
    THEN <<ReadingIn.mObject.v[ReadingIn.mIndex + 1]>>
    ELSE <<>>

-----------------------------------------------------------------------------
(* Compressed output *)

\* The number of values in a JSON text, which stands for its length in bytes.
RECURSIVE GetSize(_)
SumSizes(xs) ==
    LET RECURSIVE Sum(_)
        Sum(i) == IF i > Len(xs) THEN 0
                  ELSE GetSize(IF "x" \in DOMAIN xs[i] THEN xs[i].x ELSE xs[i])
                       + Sum(i + 1)
    IN  Sum(1)
GetSize(x) == IF x.t \in {"Object", "Array"} THEN 1 + SumSizes(x.v) ELSE 1

\* crc32 of a text, and the memory a pointer can lead to: the text itself,
\* its deflated form, or whatever else the address holds.
crc32(x) == [crc |-> x]
Plain(x) == [kind |-> "plain", of |-> x]
Deflated(x) == [kind |-> "deflated", of |-> x]
Garbage == [kind |-> "garbage", of |-> JNull]

\* What deflateInit2 and deflate can end with: the stream ended within the
\* output buffer, the initialisation failed, or the output buffer was full.
DeflateOutcomes == {"Z_STREAM_END", "Z_MEM_ERROR", "Z_OK"}

\* The value of a pointer that was never assigned: null or any address.
Indeterminate == {<<>>, <<Garbage>>}

\* FSerializer::GetCompressedOutput on a writer: the buffers it can return
\* when deflate ends with outcome and total_out bytes.
GetCompressedOutput(a, heap, outcome, total_out) ==
    LET e == EndObjectW(WriteObjects(a, heap))
        text == e.arc.w[1].mOutString[1]
        buff == [mSize |-> GetSize(text), mZipFlags |-> 0, mCRC32 |-> crc32(text)]
    IN  IF outcome = "Z_STREAM_END"
        THEN {[arc |-> e.arc,
               ret |-> buff @@ [mCompressedSize |-> total_out,
                                mMethod |-> "METHOD_DEFLATE",
                                mBuffer |-> <<Deflated(text)>>]]}
        ELSE {[arc |-> e.arc,
               ret |-> buff @@ [mCompressedSize |-> buff.mSize,
                                mMethod |-> "METHOD_STORED",
                                mBuffer |-> p]] : p \in Indeterminate}

\* The caller takes the compressed output of what it wrote.
DoGetCompressedOutput(outcome) ==
    /\ app.pc = "write"
    /\ \E total_out \in 1..GetSize(JObject(arc.w[1].open[1].v)) :
       \E o \in GetCompressedOutput(arc, app.heap, outcome, total_out) :
          /\ arc' = o.arc
          /\ app' = [deflate |-> outcome]
                     @@ [app EXCEPT !.pc = "compressed", !.out = o.ret]
    /\ UNCHANGED engine

NextCompress ==
    \/ DoOpenWriter
    \/ \E key \in ScalarKeys : DoWriteField(key)
    \/ \E outcome \in DeflateOutcomes : DoGetCompressedOutput(outcome)

SpecCompress == InitScalar /\ [][NextCompress]_vars

\* When the compression failed the returned buffer has method stored, the
\* size of the text as its compressed size and the CRC32 of the text.
StoredFields ==
    (app.pc = "compressed" /\ app.deflate # "Z_STREAM_END")
    => /\ app.out.mMethod = "METHOD_STORED"
       /\ app.out.mCompressedSize = app.out.mSize
       /\ app.out.mSize = GetSize(arc.w[1].mOutString[1])
       /\ app.out.mCRC32 = crc32(arc.w[1].mOutString[1])

\* C34: when the compression failed the returned buffer has method stored,
\* the size of the text as its compressed size, the CRC32 of the text, and a
\* buffer pointer that leads to the text.
C34_StoredFallback ==
    (app.pc = "compressed" /\ app.deflate # "Z_STREAM_END")
    => /\ StoredFields
       /\ app.out.mBuffer # <<>>
       /\ app.out.mBuffer[1] = Plain(arc.w[1].mOutString[1])

-----------------------------------------------------------------------------
(* ReadObjects and the references read after it *)

\* The first loop of ReadObjects from element i on: every element that is an
\* object gets a new object of its "classtype", named by its place in
\* mDObjects.  st holds the serializer and whether a class was not found.
RECURSIVE CreateObjectsFrom(_, _)
CreateObjectsFrom(st, i) ==
    IF i >= Len(st.arc.r[1].mDObjects) THEN st
    ELSE LET b == BeginObject(st.arc, <<>>)
             cls == FindMember(Last(b.arc.r[1].mObjects).mObject.v, "classtype")
             found == cls # <<>> /\ cls[1].t = "String"
         IN  IF b.ret
             THEN CreateObjectsFrom(
                     [arc |-> EndObject([b.arc EXCEPT !.r[1].mDObjects[i + 1] = i + 1,
                                                      !.mErrors = IF found THEN @ ELSE @ + 1]).arc,
                      founderrors |-> st.founderrors \/ ~found,
                      heap |-> st.heap],
                     i + 1)
             ELSE CreateObjectsFrom([st EXCEPT !.arc = b.arc], i + 1)

\* The second loop of ReadObjects from element i on: every object created
\* reads the reference it holds.
RECURSIVE RestoreObjectsFrom(_, _)
RestoreObjectsFrom(st, i) ==
    IF i >= Len(st.arc.r[1].mDObjects) THEN st
    ELSE LET obj == st.arc.r[1].mDObjects[i + 1]
             b == BeginObject(st.arc, <<>>)
             s == Serialize_DObject(b.arc, st.heap, "next", NULLP, <<>>)
         IN  IF b.ret
             THEN IF obj # NULLP
                  THEN RestoreObjectsFrom(
                          [st EXCEPT !.arc = EndObject(s.arc).arc,
                                     !.heap[obj].next = s.value],
                          i + 1)
                  ELSE RestoreObjectsFrom([st EXCEPT !.arc = EndObject(b.arc).arc],
                                          i + 1)
             ELSE RestoreObjectsFrom([st EXCEPT !.arc = b.arc], i + 1)

\* FSerializer::ReadObjects: the serializer and the objects it created.
ReadObjects(a) ==
    IF ~isReading(a) THEN [arc |-> a, heap |-> <<>>]
    ELSE LET b == BeginArray(a, <<"objects">>)
             n == Len(Last(b.arc.r[1].mObjects).mObject.v)
             sized == [b.arc EXCEPT !.r[1].mDObjects = [i \in 1..n |-> NULLP]]
             created == CreateObjectsFrom(
                           [arc |-> sized, founderrors |-> FALSE,
                            heap |-> [i \in 1..n |-> [next |-> NULLP]]], 0)
             marked == [created EXCEPT !.arc.r[1].mObjectsRead = TRUE]
             reset == [marked EXCEPT
                          !.arc.r[1].mObjects[Len(marked.arc.r[1].mObjects)].mIndex = 0]
             restored == IF ~marked.founderrors
                         THEN RestoreObjectsFrom(reset, 0) ELSE marked
             ended == [restored.arc EXCEPT !.r[1].mObjects = Pop(@)]
         IN  IF b.ret
             THEN [arc |-> IF restored.founderrors
                           THEN [ended EXCEPT !.mErrors = @ + 1] ELSE ended,
                   heap |-> restored.heap]
             ELSE [arc |-> b.arc, heap |-> <<>>]

\* The caller calls ReadObjects, once, before it reads a reference; made
\* holds the objects created.
DoReadObjects ==
    /\ app.pc = "read"
    /\ "made" \notin DOMAIN app
    /\ app.read = {}
    /\ LET o == ReadObjects(arc) IN
          /\ arc' = o.arc
          /\ app' = [made |-> o.heap] @@ app
    /\ UNCHANGED engine

NextReadObjects ==
    \/ DoOpenWriter
    \/ \E key \in RefKeys, value \in 0..MaxObjs : DoWriteRef(key, value)
    \/ DoGetOutput
    \/ DoClose
    \/ DoOpenReader
    \/ DoReadObjects
    \/ \E key \in RefKeys : DoReadRef(key)

SpecReadObjects == InitRefRead /\ [][NextReadObjects]_vars

\* ReadObjects has returned on the reader.
ObjectsWereRead == app.pc = "read" /\ "made" \in DOMAIN app

\* C36: after ReadObjects has returned on a reader, reading an object
\* reference never raises the "ReadObjects first" error, whether or not the
\* output holds an "objects" array.
C36_ReadObjectsSuffices ==
    [][\A key \in RefKeys :
          (ObjectsWereRead /\ DoReadRef(key)) => ~app'.thrown]_vars

\* After ReadObjects has returned on a reader whose document holds an
\* "objects" array, reading an object reference raises no error and a
\* reference written as an index is read as the object created for it.
ReadObjectsWithArray ==
    [][\A key \in RefKeys :
          (/\ ObjectsWereRead
           /\ FindMember(app.out[1].v, "objects") # <<>>
           /\ DoReadRef(key))
          => /\ ~app'.thrown
             /\ arc.r[1].mDObjects = [i \in 1..Len(app.made) |-> i]
             /\ LET val == FindMember(app.out[1].v, key) IN
                (val # <<>> /\ val[1].t = "Int")
                => app'.dst[key] = val[1].v + 1]_vars

\* ReadObjects has returned on a reader whose document holds no "objects"
\* array, the writer having written only null references.
NoObjectsRead ==
    /\ ObjectsWereRead
    /\ app.written = RefKeys
    /\ FindMember(app.out[1].v, "objects") = <<>>

-----------------------------------------------------------------------------
(* The nesting protocol of the writer *)

\* The writer's stack mirrors the containers the JSON writer has open.
Mirrors(a) ==
    /\ Len(a.w[1].mInObject) = Len(a.w[1].open)
    /\ \A i \in 1..Len(a.w[1].open) :
          a.w[1].mInObject[i] = (a.w[1].open[i].t = "Object")

\* The container t was begun under name: an error and no change for a null
\* name inside an object; else the container is pushed, under the key name
\* exactly when it was begun inside an object.
Begun(t, name) ==
    IF inObject(arc.w[1]) /\ name = <<>>
    THEN app'.thrown /\ arc' = arc
    ELSE /\ ~app'.thrown
         /\ arc'.w[1].mInObject = Append(arc.w[1].mInObject, t = "Object")
         /\ Innermost(arc') = [t |-> t, v |-> <<>>, key |-> <<>>]
         /\ arc'.w[1].open[Len(arc.w[1].open)].key =
               IF inObject(arc.w[1]) THEN name ELSE <<>>

\* The innermost container was ended if it is open and of type t; else an
\* error was raised and nothing changed.
Ended(t) ==
    IF arc.w[1].mInObject # <<>> /\ Innermost(arc).t = t
    THEN /\ ~app'.thrown
         /\ app'.pc = "write"
         /\ arc'.w[1].mInObject = Pop(arc.w[1].mInObject)
         /\ Len(arc'.w[1].open) = Len(arc.w[1].open) - 1
    ELSE app'.thrown /\ arc' = arc

\* What a call to the open writer does, for the calls that meet the
\* precondition pre.
Protocol(pre) ==
    (/\ app.pc = "write"
     /\ app'.calls = app.calls + 1
     /\ Mirrors(arc)
     /\ pre)
    => /\ app'.pc = "write" => Mirrors(arc')
       /\ app'.lastc.op = "Open" => ~app'.ret /\ arc' = arc
       /\ app'.lastc.op = "BeginObject" => Begun("Object", app'.lastc.name)
       /\ app'.lastc.op = "BeginArray" => Begun("Array", app'.lastc.name)
       /\ app'.lastc.op = "EndObject" => Ended("Object")
       /\ app'.lastc.op = "EndArray" => Ended("Array")
       /\ app'.lastc.op = "Serialize"
          => \/ arc' = arc
             \/ /\ arc'.w[1].mInObject = arc.w[1].mInObject
                /\ Len(Innermost(arc').v) = Len(Innermost(arc).v) + 1
                /\ ("k" \in DOMAIN Last(Innermost(arc').v)) = inObject(arc.w[1])

\* C35: the writer's stack mirrors the Begin and End calls; EndObject raises
\* an error unless the innermost open container is an object, EndArray
\* unless it is an array; a key is emitted exactly inside an object, where a
\* null key is an error; OpenWriter and OpenReader on the open serializer
\* return false and change nothing.
C35_NestingProtocol == [][Protocol(TRUE)]_vars

\* The same for every call but EndArray with no container open.
NestingProtocolWhileOpen ==
    [][Protocol(app'.lastc.op = "EndArray" => arc.w[1].mInObject # <<>>)]_vars

\* EndArray was called with no container open, the root having been ended.
EndArrayAtTop ==
    /\ app.lastc.op = "EndArray"
    /\ arc.w # <<>>
    /\ arc.w[1].mInObject = <<>>
    /\ ~app.thrown

-----------------------------------------------------------------------------
(* SpecSlots: two actors start sounds on slot AUTO and on slot 7, looping   *)
(* or not; the backend may refuse, and channels are stopped.                *)

InitSlots == InitWith(AutoSounds)

AutoOrSeven == {CHAN_AUTO, CHAN_LOOP, 7}

NextSlots ==
    \/ \E a \in Actors, channel \in AutoOrSeven, accept \in BOOLEAN :
          DoStartSound(SOURCE_Actor, a, NoPoint, channel, 1, 100, 1, accept,
                       MaxLimitChans)
    \/ \E c \in DOMAIN chan : DoStopChannel(c)

SpecSlots == InitSlots /\ [][NextSlots]_vars

\* The Active channels of the actor a, and the slots they occupy.
ChannelsOf(a) ==
    {c \in Active : chan[c].SourceType = SOURCE_Actor /\ chan[c].Source = a}
SlotsOf(a) == {chan[c].EntChannel : c \in ChannelsOf(a)}

\* C37: StartSound with slot AUTO and a source that is not null leaves every
\* Active channel of that source in the list, unstopped and unmodified; it
\* returns null or a channel that was not Active, on a slot no Active
\* channel of the source occupied.
C37_AutoSparesSource ==
    [][\A a \in Actors, channel \in {CHAN_AUTO, CHAN_LOOP}, accept \in BOOLEAN :
          DoStartSound(SOURCE_Actor, a, NoPoint, channel, 1, 100, 1, accept,
                       MaxAutoChans)
          => /\ \A c \in ChannelsOf(a) : Untouched(c)
             /\ last'.ret # NULLP
                => /\ last'.ret \notin Active
                   /\ chan'[last'.ret].EntChannel \notin SlotsOf(a)
                   /\ chan'[last'.ret].Source = a]_vars

\* An actor that held slot 0 and, by an explicit start, slot 7 got slot 6
\* from a start on slot AUTO.
C37_Witness ==
    /\ last.op = "StartSound"
    /\ last.ret # NULLP
    /\ chan[last.ret].EntChannel = 6
    /\ SlotsOf(chan[last.ret].Source) = {0, 6, 7}

-----------------------------------------------------------------------------
(* SpecReenter: a backend whose StopChannel reports, before it returns, the *)
(* end of another voice as well.                                            *)

\* StopChannel(c) with that backend: when the channel has a voice the
\* backend is called, and ChannelEnded is entered for the channel also too,
\* at position apos, if it has a voice.
StopChannelReentered(e, c, pos, also, apos) ==
    LET e1 == StopChannel(e, c, pos) IN
    IF /\ c # NULLP
       /\ e.chan[c].SysChannel # NULLP
       /\ also \notin {NULLP, c}
       /\ e1.chan[also].SysChannel # NULLP
    THEN ChannelEnded(e1, also, apos, SampleLength)
    ELSE e1

\* The loop of StopAllChannels from channel c on; script[c] is the channel
\* the backend ends as well when c is stopped.
RECURSIVE StopAllFromReentered(_, _, _, _)
StopAllFromReentered(e, c, script, apos) ==
    IF c = NULLP THEN e
    ELSE LET next == e.chan[c].NextChan
         IN  StopAllFromReentered(StopChannelReentered(e, c, 0, script[c], apos),
                                  next, script, apos)

StopAllChannelsReentered(e, script, apos) ==
    StopAllFromReentered(e, e.Channels, script, apos)

\* The loop of EvictAllChannels from channel c on, with that backend.
RECURSIVE EvictFromReentered(_, _, _, _, _)
EvictFromReentered(e, c, pos, script, apos) ==
    IF c = NULLP THEN e
    ELSE
    LET next == e.chan[c].NextChan
        e1 == IF CHAN_EVICTED \in e.chan[c].ChanFlags THEN e
              ELSE LET e2 == EvictChannel(e, c, pos) IN
                   IF /\ e.chan[c].SysChannel # NULLP
                      /\ script[c] \notin {NULLP, c}
                      /\ e2.chan[script[c]].SysChannel # NULLP
                   THEN ChannelEnded(e2, script[c], apos, SampleLength)
                   ELSE e2
    IN  EvictFromReentered(e1, next, pos, script, apos)

EvictAllChannelsReentered(e, pos, script, apos) ==
    EvictFromReentered(e, e.Channels, pos, script, apos)

\* For every channel the channel the backend ends with it, or none: it does
\* so for one channel at most.
Scripts ==
    {[c \in DOMAIN chan |-> IF c = trigger THEN also ELSE NULLP] :
        trigger \in DOMAIN chan, also \in DOMAIN chan \cup {NULLP}}

DoStopAllChannelsReentered(script, apos) ==
    Becomes("StopAllChannels", StopAllChannelsReentered(Engine, script, apos), NULLP)

DoEvictAllChannelsReentered(script, apos) ==
    Becomes("EvictAllChannels",
            EvictAllChannelsReentered(Engine, 0, script, apos), NULLP)

InitReenter == InitWith(AutoSounds)

NextReenter ==
    \/ \E channel \in {CHAN_AUTO, CHAN_LOOP} :
          DoStartSound(SOURCE_Actor, 2, NoPoint, channel, 1, 100, 1, TRUE,
                       MaxLimitChans)
    \/ \E script \in Scripts, apos \in {0, SampleLength} :
          DoStopAllChannelsReentered(script, apos)
    \/ \E script \in Scripts, apos \in {0, SampleLength} :
          DoEvictAllChannelsReentered(script, apos)

SpecReenter == InitReenter /\ [][NextReenter]_vars

\* After StopAllChannels the Active list is empty and after EvictAllChannels
\* no Active channel has a voice, for the scripts of the set allowed.
StopsAll(allowed, positions) ==
    /\ \A script \in allowed, apos \in positions :
          DoStopAllChannelsReentered(script, apos) => Active' = {}
    /\ \A script \in allowed, apos \in positions :
          DoEvictAllChannelsReentered(script, apos)
          => \A c \in Active' : chan'[c].SysChannel = NULLP

\* C38: StopAllChannels and EvictAllChannels reach every channel that was in
\* the Active list when they began, also when the backend's StopChannel
\* enters ChannelEnded for another channel in the middle of the walk,
\* retiring or parking it: afterwards no Active channel has a voice, and
\* after StopAllChannels the Active list is empty.
C38_WalkSurvivesReentry == [][StopsAll(Scripts, {0, SampleLength})]_vars

\* No earlier walk has left its marks: no channel with a voice is marked
\* evicted.
Unmarked == \A c \in DOMAIN chan : Playing(c) => ~Evicted(c)

\* The same, from a state without such marks, for a backend that ends with
\* the channel stopped no other channel, or one that is then parked: a
\* looping one.
WalkSurvivesParking ==
    [][Unmarked
       => /\ StopsAll({s \in Scripts : \A c \in DOMAIN chan :
                          s[c] # NULLP => CHAN_LOOP \in chan[s[c]].ChanFlags},
                      {0, SampleLength})
          /\ StopsAll({s \in Scripts : \A c \in DOMAIN chan : s[c] = NULLP},
                      {0})]_vars

\* The walk has left a channel with a voice in the Active list.
VoiceLeft ==
    /\ last.op = "EvictAllChannels"
    /\ \E c \in Active : chan[c].SysChannel # NULLP

-----------------------------------------------------------------------------
(* SpecPlaying: an actor starts two sounds on slot AUTO and on slot 1, and  *)
(* the client asks what it plays.                                           *)

\* Two sounds without a limit.
PlayingSounds ==
    <<[NewSfx(1, 0) EXCEPT !.NearLimit = 0], [NewSfx(2, 0) EXCEPT !.NearLimit = 0]>>

\* The loop of IsSourcePlayingSomething over the channels l.
RECURSIVE PlayingScan(_, _, _, _, _, _)
PlayingScan(e, l, sourcetype, actor, channel, sound_id) ==
    IF l = <<>> THEN FALSE
    ELSE LET c == e.chan[Head(l)]
         IN  IF /\ c.SourceType = sourcetype /\ c.Source = actor
                /\ (channel = 0 \/ c.EntChannel = channel)
             THEN sound_id <= 0 \/ c.OrgID = sound_id
             ELSE PlayingScan(e, Tail(l), sourcetype, actor, channel, sound_id)

IsSourcePlayingSomething(e, sourcetype, actor, channel, sound_id) ==
    PlayingScan(e, ActiveOf(e), sourcetype, actor, channel, sound_id)

\* The loop of GetSoundPlayingInfo over the channels l.
RECURSIVE InfoScan(_, _, _, _, _)
InfoScan(e, l, sourcetype, source, sound_id) ==
    IF l = <<>> THEN FALSE
    ELSE LET c == e.chan[Head(l)]
         IN  IF c.OrgID = sound_id /\ c.SourceType = sourcetype /\ c.Source = source
             THEN TRUE
             ELSE InfoScan(e, Tail(l), sourcetype, source, sound_id)

GetSoundPlayingInfo(e, sourcetype, source, sound_id) ==
    IF sound_id > 0 THEN InfoScan(e, ActiveOf(e), sourcetype, source, sound_id)
    ELSE FALSE

\* The answer true is logged as 1, false as 0.
Answer(b) == IF b THEN 1 ELSE 0

DoIsSourcePlayingSomething(sourcetype, actor, channel, sound_id) ==
    Becomes("IsSourcePlayingSomething", Engine,
            Answer(IsSourcePlayingSomething(Engine, sourcetype, actor, channel,
                                            sound_id)))

DoGetSoundPlayingInfo(sourcetype, source, sound_id) ==
    Becomes("GetSoundPlayingInfo", Engine,
            2 + Answer(GetSoundPlayingInfo(Engine, sourcetype, source, sound_id)))

InitPlaying == InitWith(PlayingSounds)

PlayingIds == {0, 1, 2}

NextPlaying ==
    \/ \E channel \in {CHAN_AUTO, 1}, id \in {1, 2}, accept \in BOOLEAN :
          DoStartSound(SOURCE_Actor, 2, NoPoint, channel, id, 100, 1, accept,
                       MaxLimitChans)
    \/ \E c \in DOMAIN chan : DoStopChannel(c)
    \/ \E a \in Actors, channel \in {0, 1}, id \in PlayingIds :
          DoIsSourcePlayingSomething(SOURCE_Actor, a, channel, id)
    \/ \E a \in Actors, id \in PlayingIds : DoGetSoundPlayingInfo(SOURCE_Actor, a, id)

SpecPlaying == InitPlaying /\ [][NextPlaying]_vars

\* Some Active channel of the actor a, on slot channel or on any slot when
\* channel is 0, has the sound id as its OrgID.
PlaysOn(a, channel, id) ==
    \E c \in Active :
        /\ chan[c].SourceType = SOURCE_Actor /\ chan[c].Source = a
        /\ (channel = 0 \/ chan[c].EntChannel = channel)
        /\ chan[c].OrgID = id

\* C39: IsSourcePlayingSomething with sound_id > 0 returns true exactly when
\* some Active channel of the source, on slot channel or on any slot when
\* channel is 0, has OrgID == sound_id, wherever it is in the list.
C39_PlayingIff ==
    [][\A a \in Actors, channel \in {0, 1}, id \in PlayingIds \ {0} :
          DoIsSourcePlayingSomething(SOURCE_Actor, a, channel, id)
          => (last'.ret = 1) = PlaysOn(a, channel, id)]_vars

\* IsSourcePlayingSomething with sound_id > 0 and a slot other than 0
\* returns true exactly when some Active channel of the source on that slot
\* has that OrgID, and GetSoundPlayingInfo exactly when some Active channel
\* of the source has it.
PlayingOnSlotIff ==
    [][/\ \A a \in Actors, id \in PlayingIds \ {0} :
             DoIsSourcePlayingSomething(SOURCE_Actor, a, 1, id)
             => (last'.ret = 1) = PlaysOn(a, 1, id)
       /\ \A a \in Actors, id \in PlayingIds :
             DoGetSoundPlayingInfo(SOURCE_Actor, a, id)
             => (last'.ret = 3) = (id > 0 /\ PlaysOn(a, 0, id))]_vars

\* The actor plays both sounds, and the question for the one started first,
\* on any slot, was answered with false.
AnsweredByNewest ==
    /\ last.op = "other"
    /\ last.ret = 0
    /\ PlaysOn(2, 0, 1)
    /\ PlaysOn(2, 0, 2)

-----------------------------------------------------------------------------
(* The channels of the Free list *)

\* Channel c holds nothing but its links.
IsReset(c) == [chan[c] EXCEPT !.NextChan = NULLP, !.PrevChan = NULLP] = ZeroChan

\* GetChannel(syschan) took the head of the Free list, which then holds
\* nothing but the voice, or, the list being empty, allocated a channel.
TakenFromFree(syschan) ==
    IF FreeChannels # NULLP
    THEN /\ last'.ret = FreeChannels
         /\ DOMAIN chan' = DOMAIN chan
         /\ [chan'[last'.ret] EXCEPT !.NextChan = NULLP, !.PrevChan = NULLP]
               = [ZeroChan EXCEPT !.SysChannel = syschan]
    ELSE /\ last'.ret \notin DOMAIN chan
         /\ DOMAIN chan' = DOMAIN chan \cup {last'.ret}

\* C40: every channel in the Free list is reset (no flags, no voice, SoundID
\* and OrgID 0, as every other field), so that the channel GetChannel takes
\* from the list carries nothing of the sound that used it last; GetChannel
\* allocates a channel only when the Free list is empty.
C40_FreeIsReset ==
    /\ [](\A c \in Free : IsReset(c))
    /\ [][\A syschan \in {NULLP, Voice} :
             DoGetChannel(syschan, MaxChans) => TakenFromFree(syschan)]_vars

\* The backend took a channel for a voice while a channel that was returned
\* is in the Free list.
C40_Witness ==
    /\ last.op = "other"
    /\ last.ret \in Active
    /\ chan[last.ret] = [ZeroChan EXCEPT !.SysChannel = Voice,
                                         !.PrevChan = HEAD_CHANNELS]
    /\ Free # {}
    /\ S_sfx[1].bUsed

====
